---- MODULE Spec2Model ----
(***************************************************************************)
(* The news ingestion-and-retrieval engine of intellinews:                 *)
(*   NewsKnowledgeManager (src/src/managers/newsKnowledgeManager.ts):      *)
(*     store / dedup / query cache / search / filter;                      *)
(*   NewsMemoryService (src/src/actions/fetchNews.ts, lines 164-516):      *)
(*     topics, timers, fetchNews / fetchNewsForTopic, date extraction.     *)
(*                                                                         *)
(* Time is Date.now(), counted in seconds.  An optional value (a field     *)
(* that may be undefined) is a sequence: <<>> when absent, <<v>> when set. *)
(* A number that may be NaN is a record [num, secs]: num = FALSE is NaN.   *)
(*                                                                         *)
(* The knowledge store (RAGKnowledgeManager of @elizaos/core) and the      *)
(* search provider (tavily) are libraries outside the repository.  They    *)
(* are modelled by what the engine's calls rely on: the store is a set of  *)
(* entries keyed by id, a text query returns any ranked list of at most    *)
(* `limit` stored entries, every call may fail with an adapter error       *)
(* (the *Error actions).                                                   *)
(***************************************************************************)
EXTENDS Integers, Sequences, FiniteSets, TLC

VARIABLES
    store,       \* the entries of the news knowledge table (a set, ids unique)
    bulk,        \* how many further entries the table holds (other articles)
    clock,       \* Date.now()
    ticks,       \* how many times the clock advanced (bounded)
    newsCache,   \* NewsKnowledgeManager.newsCache: key -> [timestamp, results, by]
    lastSearch,  \* the last searchNews call: its options and what it returned
    tasks,       \* the fetchNewsForTopic calls in progress, by slot
    round,       \* the fetchNews(topics) call in progress or last finished
    sched        \* NewsMemoryService: initialized, topics, timers, fetchIntervals

vars == <<store, bulk, clock, ticks, newsCache, lastSearch, tasks, round, sched>>

-----------------------------------------------------------------------------
(* Bounds of the model *)

MaxTicks == 3
MaxSearches == 2
MaxFetches == 2
MaxTasks == 3
MaxFires == 2
MaxInits == 2
MaxPurges == 2
BulkMany == 100

-----------------------------------------------------------------------------
(* Values *)

Absent == <<>>
Some(v) == <<v>>
Has(x) == x # <<>>
Val(x) == x[1]

Min(a, b) == IF a <= b THEN a ELSE b
Max(a, b) == IF a >= b THEN a ELSE b

\* Instants and durations are counted in seconds: the code counts
\* milliseconds, and every duration it uses is a whole number of seconds,
\* so each of its constants appears here divided by 1000.
HOUR == 60 * 60
DAY == 24 * 60 * 60

\* the clock when the model starts (any instant)
Now0 == 100 * DAY

NaN == [num |-> FALSE, secs |-> 0]
Num(n) == [num |-> TRUE, secs |-> n]

\* s.slice(0, n)
SliceTo(s, n) ==
    IF n >= 0 THEN SubSeq(s, 1, Min(n, Len(s)))
    ELSE SubSeq(s, 1, Max(Len(s) + n, 0))

Range(s) == {s[i] : i \in DOMAIN s}

\* the lists without repetition of at most n elements of the set S
Arrangements(S, n) ==
    UNION {{s \in [1..k -> S] : \A i, j \in 1..k : i # j => s[i] # s[j]} :
           k \in 0..Min(n, Cardinality(S))}

\* the lists that hold every element of S exactly once
Orderings(S) ==
    {s \in [1..Cardinality(S) -> S] : \A i, j \in DOMAIN s : i # j => s[i] # s[j]}

-----------------------------------------------------------------------------
(* NewsKnowledgeManager: query cache *)

CACHE_TTL == 5 * 60

\* JSON.stringify({query, fromDate: iso, toDate: iso, sources, topics}):
\* the five fields in this fixed order, undefined fields left out, arrays
\* element by element.  The encoding is injective on these five fields, so
\* the key is the tuple of them; limit and conversationContext are not in it.
\* a key made of the options object as it stands: JSON.stringify(options)
generateCacheKeyOfObject(options) == <<options>>

generateCacheKey(options) ==
    <<options.query, options.fromDate, options.toDate, options.sources, options.topics>>

\* a getCachedNews that still serves an entry exactly CACHE_TTL old
CachedLiveAtTTL(options) ==
    /\ generateCacheKey(options) \in DOMAIN newsCache
    /\ (clock - newsCache[generateCacheKey(options)].timestamp) <= CACHE_TTL

\* getCachedNews returns the cached results (rather than null)
CachedLive(options) ==
    /\ generateCacheKey(options) \in DOMAIN newsCache
    /\ (clock - newsCache[generateCacheKey(options)].timestamp) < CACHE_TTL

getCachedNews(options) == newsCache[generateCacheKey(options)].results

\* cleanExpiredCache on a cache c
cleanExpiredCache(c) ==
    LET keep == {k \in DOMAIN c : ~((clock - c[k].timestamp) > CACHE_TTL)}
    IN  [k \in keep |-> c[k]]

\* setCachedNews: set the entry, then sweep.  `by` is a ghost field: the
\* options of the search that stored the entry.
setCachedNews(options, results) ==
    LET key == generateCacheKey(options)
        entry == [timestamp |-> clock, results |-> results, by |-> options]
    IN  cleanExpiredCache([k \in DOMAIN newsCache \cup {key} |->
                              IF k = key THEN entry ELSE newsCache[k]])

-----------------------------------------------------------------------------
(* NewsKnowledgeManager: filter, sort, complexity *)

DEFAULT_LIMIT == 10

\* options.limit || 10
desiredCount(options) ==
    IF Has(options.limit) /\ Val(options.limit) # 0 THEN Val(options.limit) ELSE DEFAULT_LIMIT

\* !options.query && !options.conversationContext
ListAllPath(options) ==
    /\ ~(Has(options.query) /\ Val(options.query) # "")
    /\ ~(Has(options.conversationContext) /\ Val(options.conversationContext) # "")

\* the predicate of filterNewsResults on one item.  typeof NaN is 'number'
\* and every comparison with NaN is false, so NaN passes both date checks.
filterItem(item, options) ==
    /\ item.type = "news"
    /\ ~(Has(options.fromDate) /\ item.publishedAt.num
            /\ item.publishedAt.secs < Val(options.fromDate))
    /\ ~(Has(options.toDate) /\ item.publishedAt.num
            /\ item.publishedAt.secs > Val(options.toDate))
    /\ (Has(options.sources) /\ Len(Val(options.sources)) > 0) =>
            (item.source # "" /\ item.source \in Range(Val(options.sources)))
    /\ (Has(options.topics) /\ Len(Val(options.topics)) > 0) =>
            (Range(item.topics) \cap Range(Val(options.topics)) # {})

filterNewsResults(results, options) ==
    SelectSeq(results, LAMBDA item : filterItem(item, options))

\* (publishedAt as number || 0): NaN and 0 give 0
SortKey(item) ==
    IF item.publishedAt.num THEN item.publishedAt.secs ELSE 0

\* Array.prototype.sort((a, b) => dateB - dateA): stable, newest first
RECURSIVE InsertNewestFirst(_, _)
InsertNewestFirst(item, sorted) ==
    IF sorted = <<>> THEN <<item>>
    ELSE IF SortKey(Head(sorted)) >= SortKey(item)
         THEN <<Head(sorted)>> \o InsertNewestFirst(item, Tail(sorted))
         ELSE <<item>> \o sorted

RECURSIVE SortNewestFirst(_)
SortNewestFirst(items) ==
    IF items = <<>> THEN <<>>
    ELSE InsertNewestFirst(items[Len(items)],
                           SortNewestFirst(SubSeq(items, 1, Len(items) - 1)))

\* an estimate that counts a span of exactly 7 days as shorter than a week
estimateFilterComplexityAtWeek(options) ==
    LET dates ==
            IF Has(options.fromDate) /\ Has(options.toDate)
            THEN LET span == Val(options.toDate) - Val(options.fromDate)
                 IN  IF span <= 7 * DAY THEN 5
                     ELSE IF span < 30 * DAY THEN 4 ELSE 3
            ELSE IF Has(options.fromDate) \/ Has(options.toDate) THEN 2 ELSE 0
        topics == IF Has(options.topics) /\ Len(Val(options.topics)) > 0 THEN 1 ELSE 0
        sources == IF Has(options.sources) /\ Len(Val(options.sources)) > 0 THEN 1 ELSE 0
    IN  1 + dates + topics + sources

\* lines 249-267
estimateFilterComplexity(options) ==
    LET dates ==
            IF Has(options.fromDate) /\ Has(options.toDate)
            THEN LET span == Val(options.toDate) - Val(options.fromDate)
                 IN  IF span < 7 * DAY THEN 5
                     ELSE IF span < 30 * DAY THEN 4 ELSE 3
            ELSE IF Has(options.fromDate) \/ Has(options.toDate) THEN 2 ELSE 0
        topics == IF Has(options.topics) /\ Len(Val(options.topics)) > 0 THEN 1 ELSE 0
        sources == IF Has(options.sources) /\ Len(Val(options.sources)) > 0 THEN 1 ELSE 0
    IN  1 + dates + topics + sources

-----------------------------------------------------------------------------
(* Provider results and the date extraction heuristic *)

\* A text (content, rawContent) is modelled by what the engine reads of it:
\* whether it is empty, and the date expressions in it, in text order.  A
\* date expression is [pat, n, parsed]: pat is the index (1..8) of the
\* pattern of datePatterns that matches it, n the number in "n hours ago" /
\* "n days ago", parsed what new Date(text) gives for an absolute one.
PlainText == [empty |-> FALSE, dates |-> <<>>]
EmptyText == [empty |-> TRUE, dates |-> <<>>]
DateExpr(pat, n, parsed) == [pat |-> pat, n |-> n, parsed |-> parsed]

\* a Date object (valid, or Invalid Date: t = NaN), or null
DateOf(t) == [kind |-> "date", t |-> t]
NullDate == [kind |-> "null", t |-> NaN]

NumPatterns == 8

\* extractDateFromContent: the patterns in order, for each the first match
\* in the text; a relative one returns at once, an absolute one returns
\* when it parses and falls through to the next pattern when it does not.
RECURSIVE ExtractFromPattern(_, _, _)
ExtractFromPattern(content, now, p) ==
    IF p > NumPatterns THEN NullDate
    ELSE LET at == {i \in DOMAIN content.dates : content.dates[i].pat = p}
         IN  IF at = {} THEN ExtractFromPattern(content, now, p + 1)
             ELSE LET m == content.dates[CHOOSE i \in at : \A j \in at : i <= j]
                  IN  IF p = 5 THEN DateOf(Num(now - m.n * HOUR))
                      ELSE IF p = 6 THEN DateOf(Num(now - m.n * DAY))
                      ELSE IF p = 7 THEN DateOf(Num(now - DAY))
                      ELSE IF p = 8 THEN DateOf(Num(now))
                      ELSE IF m.parsed.num THEN DateOf(m.parsed)
                      ELSE ExtractFromPattern(content, now, p + 1)

\* an extraction that takes the date expression that comes first in the
\* text, whatever its pattern
extractDateInTextOrder(content, now) ==
    IF content.dates = <<>> THEN NullDate
    ELSE ExtractFromPattern([content EXCEPT !.dates = <<Head(@)>>], now, 1)

extractDateFromContent(content, now) == ExtractFromPattern(content, now, 1)

\* new Date(publishedDate) of the provider's date strings
ParseDate(str) ==
    CASE str = "2025-01-01T00:00:00Z" -> Num(Now0 - 40 * DAY)
      [] str = "2025-02-09T12:00:00Z" -> Num(Now0 - 12 * HOUR)
      [] OTHER -> NaN

\* new URL(url).hostname; a string that is no URL makes new URL throw
UrlValid(url) ==
    url \in {"https://s1.example/a", "https://s2.example/b", "https://s3.example/d",
             "https://s4.example/e"}
Hostname(url) ==
    CASE url = "https://s1.example/a" -> "s1.example"
      [] url = "https://s2.example/b" -> "s2.example"
      [] url = "https://s4.example/e" -> "s4.example"
      [] OTHER -> "s3.example"

\* title.toLowerCase() on the titles of the model
Lower(title) ==
    CASE title = "Alpha" -> "alpha"
      [] title = "ALPHA" -> "alpha"
      [] title = "Alpha update" -> "alpha update"
      [] title = "Beta" -> "beta"
      [] title = "Gamma" -> "gamma"
      [] title = "Delta" -> "delta"
      [] OTHER -> title

\* a SearchResult of the provider; "" is a missing string
Result(title, content, url, source, publishedDate, rawContent) ==
    [title |-> title, content |-> content, url |-> url, source |-> source,
     publishedDate |-> publishedDate, rawContent |-> rawContent]

-----------------------------------------------------------------------------
(* NewsMemoryService.fetchNewsForTopic, up to the store calls *)

\* lines 392-411: the published date of a result
derivePublishedAt(result, now) ==
    IF ~(Has(result.publishedDate) /\ Val(result.publishedDate) # "")
    THEN IF Has(result.rawContent) /\ ~Val(result.rawContent).empty
         THEN LET fromRaw == extractDateFromContent(Val(result.rawContent), now)
                  fromContent == extractDateFromContent(result.content, now)
              IN  IF fromRaw.kind # "null" THEN fromRaw
                  ELSE IF fromContent.kind # "null" THEN fromContent
                  ELSE DateOf(Num(now))
         ELSE NullDate
    ELSE DateOf(ParseDate(Val(result.publishedDate)))

\* lines 414-421
makeNewsItem(result, topic, now) ==
    [title |-> result.title,
     content |-> result.content,
     source |-> IF result.source # "" THEN result.source
                ELSE IF result.url # "" THEN Hostname(result.url) ELSE "unknown",
     url |-> result.url,
     publishedAt |-> derivePublishedAt(result, now),
     topics |-> <<topic>>]

\* new URL(result.url) throws: the error leaves the loop and is rethrown
makeNewsItemThrows(result) ==
    result.source = "" /\ result.url # "" /\ ~UrlValid(result.url)

NoItem ==
    [title |-> "", content |-> EmptyText, source |-> "", url |-> "",
     publishedAt |-> NullDate, topics |-> <<>>]

\* What the last checkForDuplicate of a call saw and returned: the outcome
\* of its url step and of its title step ("none": not made; "failed": the
\* store call threw), the title it was about, the stored titles and the
\* similarity scores of the title query's results, and the value returned
NoCheck ==
    [url |-> "none", title |-> "none", of |-> "", n |-> 0, titles |-> {},
     sims |-> {}, ret |-> "none"]

\* `known`, `check` and `putFailed` are ghost fields: the urls the table
\* held when the call began, the record of the duplicate check of the
\* candidate, and whether a createKnowledge of the call has failed
IdleTask ==
    [pc |-> "idle", topic |-> "", origin |-> "", pending |-> <<>>,
     cand |-> NoItem, items |-> <<>>, known |-> {}, check |-> NoCheck,
     putFailed |-> FALSE]

\* a skip check that looks at the title only
skipUntitled(result) == result.title = ""

\* line 390: !result.title || !result.content
skipResult(result) == result.title = "" \/ result.content.empty

\* The synchronous code of the loop from the result at the head of
\* `pending` to the next store call: results without title or content are
\* skipped; the first other one becomes the candidate whose duplicate check
\* starts (pc "checkUrl" or "checkTitle"); with none left the call returns
\* (pc "done").
RECURSIVE toNextAwait(_, _)
toNextAwait(task, now) ==
    IF task.pending = <<>> THEN [task EXCEPT !.pc = "done", !.cand = NoItem]
    ELSE LET result == Head(task.pending)
         IN  IF skipResult(result)
             THEN toNextAwait([task EXCEPT !.pending = Tail(@)], now)
             ELSE IF makeNewsItemThrows(result)
             THEN [task EXCEPT !.pc = "failed", !.cand = NoItem]
             ELSE [task EXCEPT !.cand = makeNewsItem(result, task.topic, now),
                               !.pc = IF result.url # "" THEN "checkUrl" ELSE "checkTitle"]

\* the candidate is done with (skipped or stored): on to the next result
nextResult(task, now) ==
    toNextAwait([task EXCEPT !.pending = Tail(@)], now)

-----------------------------------------------------------------------------
(* NewsKnowledgeManager.storeNewsItem / checkForDuplicate *)

\* stringToUuid(idBase): a hash, taken to be free of collisions, so the id
\* is the string it is computed from
\* an id base that takes the title in whatever the url
idBaseWithTitle(newsItem) ==
    IF newsItem.url # "" THEN <<newsItem.url, "-", newsItem.title>>
    ELSE <<newsItem.title, "-", newsItem.source>>

\* line 46: newsItem.url || `${newsItem.title}-${newsItem.source}`
idBase(newsItem) ==
    IF newsItem.url # "" THEN <<newsItem.url>> ELSE <<newsItem.title, "-", newsItem.source>>

stringToUuid(base) == base

\* lines 50-68
knowledgeItem(newsItem, now) ==
    [id |-> stringToUuid(idBase(newsItem)),
     title |-> newsItem.title,
     content |-> newsItem.content,
     source |-> newsItem.source,
     url |-> newsItem.url,
     publishedAt |-> newsItem.publishedAt.t,
     type |-> "news",
     topics |-> newsItem.topics,
     createdAt |-> now]

\* newsItem.publishedAt.getTime() on null: a TypeError, caught at line 73
storeThrowsBeforePut(newsItem) == newsItem.publishedAt.kind = "null"

\* a write that replaces the entry the table holds under the id
createKnowledgeReplacing(item) ==
    {e \in store : e.id # item.id} \cup {item}

\* createKnowledge: the table is keyed by id; an id it holds is not added again
createKnowledge(item) ==
    IF \E e \in store : e.id = item.id THEN store ELSE store \cup {item}

METADATA_LIMIT == 10
TITLE_LIMIT == 5
SIMILARITY_PERCENT == 95

\* getKnowledge({limit}) without a query, as searchNewsByMetadata and
\* purgeOldNews use it ("get all knowledge"): min(limit, size) entries of
\* the table.  The result is the set of modelled entries among them; the
\* other places are taken by the `bulk` entries.
getKnowledgeNoQuery(limit) ==
    LET size == Cardinality(store) + bulk
        n == Min(limit, size)
    IN  {T \in SUBSET store : (n - Cardinality(T)) \in 0..bulk}

\* searchNewsByMetadata({key: "url", value}) on what the store returned
urlMatches(returned, url) == {e \in returned : e.url = url}

\* the similarity scores (in percent) a store may report; 0 is none
SimValues == {0, 80, 95, 96}

\* a title step that takes a similarity of 0.95 for a duplicate
titleDuplicateAtThreshold(newsItem, returned, sim) ==
    \E e \in returned :
        \/ Lower(e.title) = Lower(newsItem.title)
        \/ (sim[e] # 0 /\ sim[e] >= SIMILARITY_PERCENT)

\* results.some(...) of the title step, on the entries the store returned
\* and their similarity scores
titleDuplicate(newsItem, returned, sim) ==
    \E e \in returned :
        \/ Lower(e.title) = Lower(newsItem.title)
        \/ (sim[e] # 0 /\ sim[e] > SIMILARITY_PERCENT)

-----------------------------------------------------------------------------
(* Inputs of the model *)

Opt(query, context, limit, fromDate, toDate, sources, topics) ==
    [query |-> query, conversationContext |-> context, limit |-> limit,
     fromDate |-> fromDate, toDate |-> toDate, sources |-> sources, topics |-> topics]

NoOptions == Opt(Absent, Absent, Absent, Absent, Absent, Absent, Absent)

\* the searches callers make
SearchInputs ==
    { NoOptions,
      Opt(Absent, Absent, Some(1), Absent, Absent, Absent, Absent),
      Opt(Some("q"), Absent, Some(2), Absent, Absent, Absent, Absent),
      Opt(Some("q"), Some("c"), Some(1), Absent, Absent, Absent, Absent),
      Opt(Absent, Absent, Some(2), Some(Now0 - DAY), Absent, Absent, Absent),
      Opt(Absent, Absent, Some(2), Some(Now0 - DAY), Some(Now0 + DAY),
          Some(<<"s2.example">>), Some(<<"technology">>)) }

\* the provider's results
ResultAlpha ==
    Result("Alpha", PlainText, "https://s1.example/a", "s1", Some("2025-01-01T00:00:00Z"), Absent)
ResultAlphaAgain ==
    Result("Alpha update", PlainText, "https://s1.example/a", "s1", Some("2025-02-09T12:00:00Z"), Absent)
ResultBeta ==
    Result("Beta", PlainText, "https://s2.example/b", "", Absent,
           Some([empty |-> FALSE, dates |-> <<DateExpr(5, 2, NaN)>>]))
ResultGamma ==
    Result("Gamma", PlainText, "", "", Absent, Absent)
ResultDelta ==
    Result("Delta", PlainText, "https://s3.example/d", "s3", Some("last week"), Absent)
ResultEpsilon ==
    Result("Epsilon", PlainText, "https://s4.example/e", "s4", Absent,
           Some([empty |-> FALSE, dates |-> <<DateExpr(6, 30, NaN)>>]))
ResultAlphaUpper ==
    Result("ALPHA", PlainText, "", "s1", Some("2025-01-01T00:00:00Z"), Absent)
ResultBlank ==
    Result("Zeta", EmptyText, "https://s4.example/e", "s4", Some("2025-01-01T00:00:00Z"), Absent)
ResultUntitled ==
    Result("", PlainText, "https://s3.example/d", "s3", Absent, Absent)

TopicNames == {"technology", "science"}

-----------------------------------------------------------------------------
(* The clock *)

\* the k-th advance of the clock: to one second before the TTL, then
\* second by second across it
TickStep(k) == IF k = 1 THEN CACHE_TTL - 1 ELSE 1

Tick ==
    /\ ticks < MaxTicks
    /\ ticks' = ticks + 1
    /\ clock' = clock + TickStep(ticks + 1)
    /\ UNCHANGED <<store, bulk, newsCache, lastSearch, tasks, round, sched>>

-----------------------------------------------------------------------------
(* NewsKnowledgeManager.searchNews *)

Call(op, limit) == [op |-> op, limit |-> limit]

\* what a call returns, and how.  `found` is the cache entry under the
\* key of the call when it was made, if any: its age, and the options of
\* the search that stored it.  `first` is, on the query path, the size of
\* the first batch and the number of its entries that pass the filter.
Returned(options, result, fromCache, calls, failed) ==
    [n |-> lastSearch.n + 1, opts |-> options, result |-> result,
     fromCache |-> fromCache, calls |-> calls, failed |-> failed,
     found |-> IF generateCacheKey(options) \in DOMAIN newsCache
               THEN <<[age |-> clock - newsCache[generateCacheKey(options)].timestamp,
                       by |-> newsCache[generateCacheKey(options)].by]>>
               ELSE <<>>,
     first |-> <<>>]

FirstBatch(result, matchingResults) ==
    <<[size |-> Len(result), matching |-> Len(matchingResults)]>>

\* an escalation that is also made when the matches number exactly the limit
needsLargerBatchAtLimit(matchingResults, options) ==
    Len(matchingResults) <= desiredCount(options)

\* line 215
needsLargerBatch(matchingResults, options) ==
    Len(matchingResults) < desiredCount(options)

\* lines 184-191 and 231-242: sort, truncate
newestFirst(matching, options) ==
    SliceTo(SortNewestFirst(matching), desiredCount(options))

\* an empty first batch that is cached like any other result
cacheEmptyBatch(options) == setCachedNews(options, <<>>)

\* lines 206-209: on an empty batch searchNews returns before setCachedNews
cacheAfterEmptyBatch(options) == newsCache

\* a failed search that is cached as an empty result
cacheEmptyOnFailure(options) == setCachedNews(options, <<>>)

\* lines 243-246: the catch returns [] and does not touch the cache
cacheAfterFailure(options) == newsCache

\* a text query: any ranked list of at most `limit` stored entries
getKnowledgeQuery(limit) == Arrangements(store, limit)

\* searchNews(options), no store call failing
searchNews(options) ==
    /\ lastSearch.n < MaxSearches
    /\ bulk = 0
    /\ IF CachedLive(options)
       THEN /\ lastSearch' = Returned(options, getCachedNews(options), TRUE, <<>>, FALSE)
            /\ UNCHANGED newsCache
       ELSE IF ListAllPath(options)
       THEN \E allItems \in Orderings(store) :
              LET r == newestFirst(filterNewsResults(allItems, options), options)
              IN  /\ newsCache' = setCachedNews(options, r)
                  /\ lastSearch' = Returned(options, r, FALSE,
                                            <<Call("listAllKnowledge", 0)>>, FALSE)
       ELSE LET adjustedCount == desiredCount(options) * estimateFilterComplexity(options)
            IN  \E result \in getKnowledgeQuery(adjustedCount) :
                  IF Len(result) = 0
                  THEN /\ lastSearch' = [Returned(options, <<>>, FALSE,
                                            <<Call("getKnowledge", adjustedCount)>>, FALSE)
                                         EXCEPT !.first = FirstBatch(result, <<>>)]
                       /\ newsCache' = cacheAfterEmptyBatch(options)
                  ELSE LET matchingResults == filterNewsResults(result, options)
                       IN  IF needsLargerBatch(matchingResults, options)
                           THEN \E largerBatch \in getKnowledgeQuery(adjustedCount * 10) :
                                  LET r == newestFirst(matchingResults \o
                                             filterNewsResults(largerBatch, options), options)
                                  IN  /\ newsCache' = setCachedNews(options, r)
                                      /\ lastSearch' = [Returned(options, r, FALSE,
                                            <<Call("getKnowledge", adjustedCount),
                                              Call("getKnowledge", adjustedCount * 10)>>, FALSE)
                                            EXCEPT !.first = FirstBatch(result, matchingResults)]
                           ELSE LET r == newestFirst(matchingResults, options)
                                IN  /\ newsCache' = setCachedNews(options, r)
                                    /\ lastSearch' = [Returned(options, r, FALSE,
                                            <<Call("getKnowledge", adjustedCount)>>, FALSE)
                                            EXCEPT !.first = FirstBatch(result, matchingResults)]
    /\ UNCHANGED <<store, bulk, clock, ticks, tasks, round, sched>>

\* searchNews(options) when its store call fails: caught at line 243
searchNewsError(options) ==
    /\ lastSearch.n < MaxSearches
    /\ bulk = 0
    /\ ~CachedLive(options)
    /\ lastSearch' = Returned(options, <<>>, FALSE,
            <<IF ListAllPath(options) THEN Call("listAllKnowledge", 0)
              ELSE Call("getKnowledge",
                        desiredCount(options) * estimateFilterComplexity(options))>>, TRUE)
    /\ newsCache' = cacheAfterFailure(options)
    /\ UNCHANGED <<store, bulk, clock, ticks, tasks, round, sched>>

-----------------------------------------------------------------------------
(* NewsMemoryService.fetchNewsForTopic: one call per slot *)

Slots == 1..MaxTasks

StartedTask(topic, origin) ==
    [IdleTask EXCEPT !.pc = "search", !.topic = topic, !.origin = origin,
                     !.known = {e.url : e \in store} \ {""}]

\* webSearchService.search returns `response` (at most 5 results)
ProviderReturn(s, response) ==
    /\ tasks[s].pc = "search"
    /\ tasks' = [tasks EXCEPT ![s] = toNextAwait([@ EXCEPT !.pending = response], clock)]
    /\ UNCHANGED <<store, bulk, clock, ticks, newsCache, lastSearch, round, sched>>

\* webSearchService.search throws: logged and rethrown (lines 441-444)
ProviderError(s) ==
    /\ tasks[s].pc = "search"
    /\ tasks' = [tasks EXCEPT ![s].pc = "failed"]
    /\ UNCHANGED <<store, bulk, clock, ticks, newsCache, lastSearch, round, sched>>

\* checkForDuplicate, url step (lines 85-94)
UrlLookup(s) ==
    /\ tasks[s].pc = "checkUrl"
    /\ \E returned \in getKnowledgeNoQuery(METADATA_LIMIT * 10) :
         tasks' = [tasks EXCEPT ![s] =
                     IF urlMatches(returned, @.cand.url) # {}
                     THEN nextResult([@ EXCEPT !.check = [NoCheck EXCEPT !.url = "hit",
                                                                         !.of = tasks[s].cand.title,
                                                                         !.ret = "true"]],
                                     clock)
                     ELSE [@ EXCEPT !.pc = "checkTitle",
                                    !.check = [NoCheck EXCEPT !.url = "miss",
                                                              !.of = tasks[s].cand.title]]]
    /\ UNCHANGED <<store, bulk, clock, ticks, newsCache, lastSearch, round, sched>>

\* a failed url lookup taken for a match
UrlLookupErrorDuplicate(s) ==
    /\ tasks[s].pc = "checkUrl"
    /\ tasks' = [tasks EXCEPT ![s] =
                   nextResult([@ EXCEPT !.check = [NoCheck EXCEPT !.url = "failed",
                                                                  !.of = tasks[s].cand.title,
                                                                  !.ret = "true"]],
                              clock)]
    /\ UNCHANGED <<store, bulk, clock, ticks, newsCache, lastSearch, round, sched>>

\* the store call of searchNewsByMetadata fails: [] (lines 288-291), and
\* checkForDuplicate goes on to its title step
UrlLookupError(s) ==
    /\ tasks[s].pc = "checkUrl"
    /\ tasks' = [tasks EXCEPT ![s].pc = "checkTitle",
                              ![s].check = [NoCheck EXCEPT !.url = "failed",
                                                           !.of = tasks[s].cand.title]]
    /\ UNCHANGED <<store, bulk, clock, ticks, newsCache, lastSearch, round, sched>>

\* the record of a title step on a candidate: the url step was made when
\* the candidate has a url
TitleChecked(task, outcome, returned, sim, ret) ==
    [url |-> IF task.cand.url # "" THEN task.check.url ELSE "none",
     title |-> outcome,
     of |-> task.cand.title,
     n |-> Cardinality(returned),
     titles |-> {e.title : e \in returned},
     sims |-> {sim[e] : e \in returned},
     ret |-> ret]

\* checkForDuplicate, title step (lines 96-111)
TitleLookup(s) ==
    /\ tasks[s].pc = "checkTitle"
    /\ \E returned \in {T \in SUBSET store : Cardinality(T) <= TITLE_LIMIT} :
         \E sim \in [returned -> SimValues] :
           tasks' = [tasks EXCEPT ![s] =
                       IF titleDuplicate(@.cand, returned, sim)
                       THEN nextResult([@ EXCEPT !.check =
                                           TitleChecked(tasks[s], "hit", returned, sim, "true")],
                                       clock)
                       ELSE [@ EXCEPT !.pc = "store",
                                      !.check =
                                          TitleChecked(tasks[s], "miss", returned, sim, "false")]]
    /\ UNCHANGED <<store, bulk, clock, ticks, newsCache, lastSearch, round, sched>>

\* the title query fails: not a duplicate (lines 112-115)
TitleLookupError(s) ==
    /\ tasks[s].pc = "checkTitle"
    /\ tasks' = [tasks EXCEPT ![s].pc = "store",
                              ![s].check = TitleChecked(tasks[s], "failed", {}, <<>>, "false")]
    /\ UNCHANGED <<store, bulk, clock, ticks, newsCache, lastSearch, round, sched>>

\* storeNewsItem, and the push of what it returns (lines 431-434)
StoreItem(s) ==
    /\ tasks[s].pc = "store"
    /\ IF storeThrowsBeforePut(tasks[s].cand)
       THEN /\ tasks' = [tasks EXCEPT ![s] = nextResult([@ EXCEPT !.check = NoCheck], clock)]
            /\ UNCHANGED store
       ELSE LET item == knowledgeItem(tasks[s].cand, clock)
            IN  /\ store' = createKnowledge(item)
                /\ tasks' = [tasks EXCEPT ![s] =
                               nextResult([@ EXCEPT !.items = Append(@, item),
                                                    !.check = NoCheck], clock)]
    /\ UNCHANGED <<bulk, clock, ticks, newsCache, lastSearch, round, sched>>

\* createKnowledge fails: storeNewsItem returns null (lines 73-76)
StoreItemError(s) ==
    /\ tasks[s].pc = "store"
    /\ ~storeThrowsBeforePut(tasks[s].cand)
    /\ tasks' = [tasks EXCEPT ![s] = nextResult([@ EXCEPT !.check = NoCheck,
                                                          !.putFailed = TRUE], clock)]
    /\ UNCHANGED <<store, bulk, clock, ticks, newsCache, lastSearch, round, sched>>

-----------------------------------------------------------------------------
(* NewsMemoryService.fetchNews() / fetchNews(topics) *)

RECURSIVE Flatten(_)
Flatten(lists) ==
    IF lists = <<>> THEN <<>> ELSE Head(lists) \o Flatten(Tail(lists))

NoRound ==
    [active |-> FALSE, n |-> 0, owner |-> 0, topics |-> <<>>, results |-> <<>>,
     failed |-> {}, byTopic |-> <<>>, allItems |-> <<>>]

\* the calls of Promise.all(topics.map(...)): one fetchNewsForTopic per
\* position, each started up to its provider call.  owner is the
\* initialize() call the round belongs to, 0 for a caller's.
beginRound(topics, owner) ==
    /\ ~round.active
    /\ round.n < MaxFetches
    /\ Len(topics) <= MaxTasks
    /\ \A i \in 1..Len(topics) : tasks[i].pc = "idle"
    /\ tasks' = [s \in Slots |->
                   IF s <= Len(topics) THEN StartedTask(topics[s], "round") ELSE tasks[s]]
    /\ round' = [NoRound EXCEPT !.active = TRUE, !.n = round.n + 1,
                                !.owner = owner, !.topics = topics]

\* fetchNews(topics) called by a host collaborator
FetchNews(topics) ==
    /\ sched.initialized
    /\ beginRound(topics, 0)
    /\ UNCHANGED <<store, bulk, clock, ticks, newsCache, lastSearch, sched>>

\* Promise.all resolves: lines 306-317 (the same at 342-353)
resolveRound ==
    /\ round.active
    /\ \A i \in 1..Len(round.topics) : tasks[i].pc \in {"done", "failed"}
    /\ LET n == Len(round.topics)
           results == [i \in 1..n |-> IF tasks[i].pc = "done" THEN tasks[i].items ELSE <<>>]
           last(t) == CHOOSE i \in 1..n :
                         /\ round.topics[i] = t
                         /\ \A j \in 1..n : round.topics[j] = t => j <= i
       IN  /\ round' = [round EXCEPT
                          !.active = FALSE,
                          !.results = results,
                          !.failed = {i \in 1..n : tasks[i].pc = "failed"},
                          !.byTopic = [t \in Range(round.topics) |-> results[last(t)]],
                          !.allItems = Flatten(results)]
           /\ tasks' = [s \in Slots |-> IF s <= n THEN IdleTask ELSE tasks[s]]

\* fetchNews(topics) returns to the host collaborator
FetchNewsReturn ==
    /\ round.owner = 0
    /\ resolveRound
    /\ UNCHANGED <<store, bulk, clock, ticks, newsCache, lastSearch, sched>>

-----------------------------------------------------------------------------
(* NewsMemoryService: topics, timers, initialize, stop *)

DEFAULT_FETCH_INTERVAL == 60
DEFAULT_RETENTION_DAYS == 30
DEFAULT_TOPICS == <<"world news", "technology", "science">>
PURGE_LIMIT == 1000

\* A setting is what runtime.getSetting(name) || process.env[name] gives:
\* Absent, or a string.  The string of NEWS_TOPICS is modelled by its
\* pieces between commas (what split(",") returns), the others by
\* themselves.

\* piece.trim() on the pieces of the model
Trim(piece) ==
    CASE piece = " " -> ""
      [] piece = " technology" -> "technology"
      [] piece = "science " -> "science"
      [] OTHER -> piece

\* !topicsStr?.trim(): the string is missing, empty or blank
BlankTopics(topicsStr) ==
    \/ ~Has(topicsStr)
    \/ (Len(Val(topicsStr)) = 1 /\ Trim(Val(topicsStr)[1]) = "")

\* part_000 lines 33-41
parseTopics(topicsStr) ==
    IF BlankTopics(topicsStr) THEN <<>>
    ELSE SelectSeq([k \in 1..Len(Val(topicsStr)) |-> Trim(Val(topicsStr)[k])],
                   LAMBDA topic : topic # "")

\* Number.parseInt(value, 10) on the strings of the model: <<>> is NaN
parseInt(value) ==
    CASE value = "60" -> <<60>>
      [] value = "15" -> <<15>>
      [] value = " 30" -> <<30>>
      [] value = "15.7" -> <<15>>
      [] value = "12abc" -> <<12>>
      [] value = "0" -> <<0>>
      [] value = "-5" -> <<0 - 5>>
      [] OTHER -> <<>>

\* a safeParseInt that returns the number as it was parsed
safeParseIntAsParsed(value, defaultValue) ==
    IF ~Has(value) \/ Val(value) = "" THEN defaultValue
    ELSE LET parsed == parseInt(Val(value))
         IN  IF parsed = <<>> THEN defaultValue ELSE parsed[1]

\* part_000 lines 43-50
safeParseInt(value, defaultValue) ==
    IF ~Has(value) \/ Val(value) = "" THEN defaultValue
    ELSE LET parsed == parseInt(Val(value))
         IN  IF parsed = <<>> THEN defaultValue ELSE Max(1, parsed[1])

\* part_000 lines 61-100: the schema accepts every list parseTopics returns
\* and every integer safeParseInt returns, so the catch is not taken
validateNewsConfig(settings) ==
    [NEWS_TOPICS |-> parseTopics(settings.topics),
     NEWS_FETCH_INTERVAL_MINUTES |-> safeParseInt(settings.interval, DEFAULT_FETCH_INTERVAL)]

\* fetchNews.ts lines 188-215
initializeTopics(settings) ==
    LET config == validateNewsConfig(settings)
        topicNames == IF Len(config.NEWS_TOPICS) > 0 THEN config.NEWS_TOPICS
                      ELSE DEFAULT_TOPICS
        defaultInterval == IF config.NEWS_FETCH_INTERVAL_MINUTES # 0
                           THEN config.NEWS_FETCH_INTERVAL_MINUTES
                           ELSE DEFAULT_FETCH_INTERVAL
    IN  [i \in 1..Len(topicNames) |-> [name |-> topicNames[i], interval |-> defaultInterval]]

Timer(id, kind, topic) == [id |-> id, kind |-> kind, topic |-> topic]

\* a stop that clears one timer of the map at each call
stopFirstInterval(sc) ==
    IF DOMAIN sc.fetchIntervals = {} THEN sc
    ELSE LET name == CHOOSE x \in DOMAIN sc.fetchIntervals : TRUE
         IN  [sc EXCEPT !.timers = {tm \in @ : tm.id # sc.fetchIntervals[name]},
                        !.fetchIntervals = [x \in DOMAIN sc.fetchIntervals \ {name} |->
                                               sc.fetchIntervals[x]]]

\* stopFetchIntervals: clearInterval on every id of the fetchIntervals map,
\* then the map is cleared
stopFetchIntervals(sc) ==
    [sc EXCEPT !.timers = {tm \in @ : \A name \in DOMAIN sc.fetchIntervals :
                                          sc.fetchIntervals[name] # tm.id},
               !.fetchIntervals = <<>>]

\* startFetchIntervals: one setInterval per element of this.topics, its id
\* set in the map under the topic's name
startFetchIntervals(sc) ==
    LET cleared == stopFetchIntervals(sc)
        n == Len(sc.topics)
        idOf(i) == sc.nextId + i - 1
        names == {sc.topics[i].name : i \in 1..n}
        last(name) == CHOOSE i \in 1..n :
                         /\ sc.topics[i].name = name
                         /\ \A j \in 1..n : sc.topics[j].name = name => j <= i
    IN  [cleared EXCEPT
           !.timers = @ \cup {Timer(idOf(i), "fetch", sc.topics[i].name) : i \in 1..n},
           !.fetchIntervals = [name \in names |-> idOf(last(name))],
           !.nextId = sc.nextId + n]

\* scheduleNewsCleanup: a daily setInterval whose id is not kept
scheduleNewsCleanup(sc) ==
    [sc EXCEPT !.timers = @ \cup {Timer(sc.nextId, "purge", "")},
               !.nextId = sc.nextId + 1]

TopicNamesOf(topics) == [i \in 1..Len(topics) |-> topics[i].name]

Inits == 1..MaxInits

\* an initialize that installs the timers before it initializes the web
\* search service
InitializeCallTimersFirst(i) ==
    /\ sched.inits[i] = "idle"
    /\ \A j \in Inits : j < i => sched.inits[j] # "idle"
    /\ sched' = IF sched.initialized THEN [sched EXCEPT !.inits[i] = "returned"]
                ELSE [scheduleNewsCleanup(startFetchIntervals(
                          [sched EXCEPT !.topics = initializeTopics(sched.settings)]))
                      EXCEPT !.inits[i] = IF ~sched.settings.apiKey THEN "failed"
                                          ELSE "webSearch"]
    /\ UNCHANGED <<store, bulk, clock, ticks, newsCache, lastSearch, tasks, round>>

\* an initialize that starts a stopped engine again
InitializeCallRestarts(i) ==
    /\ sched.inits[i] = "idle"
    /\ \A j \in Inits : j < i => sched.inits[j] # "idle"
    /\ sched' = [sched EXCEPT !.inits[i] =
                    IF sched.initialized /\ ~sched.stopped THEN "returned"
                    ELSE IF ~sched.settings.apiKey THEN "failed"
                    ELSE "webSearch"]
    /\ UNCHANGED <<store, bulk, clock, ticks, newsCache, lastSearch, tasks, round>>

\* initialize(runtime) is called: a no-op once initialized; else the web
\* search service is created and initialized, which throws without an API key
InitializeCall(i) ==
    /\ sched.inits[i] = "idle"
    /\ \A j \in Inits : j < i => sched.inits[j] # "idle"
    /\ sched' = [sched EXCEPT !.inits[i] =
                    IF sched.initialized THEN "returned"
                    ELSE IF ~sched.settings.apiKey THEN "failed"
                    ELSE "webSearch"]
    /\ UNCHANGED <<store, bulk, clock, ticks, newsCache, lastSearch, tasks, round>>

\* lines 226-230: a new NewsKnowledgeManager (its cache is empty), then
\* initializeTopics waits for validateNewsConfig
InitializeManager(i) ==
    /\ sched.inits[i] = "webSearch"
    /\ newsCache' = <<>>
    /\ sched' = [sched EXCEPT !.inits[i] = "topics"]
    /\ UNCHANGED <<store, bulk, clock, ticks, lastSearch, tasks, round>>

\* an initialize that sets `initialized` before its first fetchNews()
InitializeInstallReady(i) ==
    /\ sched.inits[i] = "topics"
    /\ LET withTopics == [sched EXCEPT !.topics = initializeTopics(sched.settings)]
           installed == scheduleNewsCleanup(startFetchIntervals(withTopics))
       IN  /\ beginRound(TopicNamesOf(withTopics.topics), i)
           /\ sched' = [installed EXCEPT !.inits[i] = "fetch", !.stopped = FALSE,
                                         !.initialized = TRUE]
    /\ UNCHANGED <<store, bulk, clock, ticks, newsCache, lastSearch>>

\* lines 201-204 and 232-239: the topics are set, the timers installed and
\* the first fetchNews() started
InitializeInstall(i) ==
    /\ sched.inits[i] = "topics"
    /\ LET withTopics == [sched EXCEPT !.topics = initializeTopics(sched.settings)]
           installed == scheduleNewsCleanup(startFetchIntervals(withTopics))
       IN  /\ beginRound(TopicNamesOf(withTopics.topics), i)
           /\ sched' = [installed EXCEPT !.inits[i] = "fetch", !.stopped = FALSE]
    /\ UNCHANGED <<store, bulk, clock, ticks, newsCache, lastSearch>>

\* the first fetchNews() of initialize() returns: lines 241-242
InitializeReturn ==
    /\ round.owner # 0
    /\ resolveRound
    /\ sched' = [sched EXCEPT !.initialized = TRUE, !.inits[round.owner] = "done"]
    /\ UNCHANGED <<store, bulk, clock, ticks, newsCache, lastSearch>>

\* stop()
Stop ==
    /\ sched' = [stopFetchIntervals(sched) EXCEPT !.stopped = TRUE]
    /\ UNCHANGED <<store, bulk, clock, ticks, newsCache, lastSearch, tasks, round>>

\* a slot for a call that a timer starts
FreeSlots == {s \in Slots : /\ tasks[s].pc = "idle"
                            /\ ~(round.active /\ s <= Len(round.topics))}

\* the callback of a topic's setInterval: () => this.fetchNewsForTopic(name)
FetchTimerFire(tm) ==
    /\ tm \in sched.timers
    /\ tm.kind = "fetch"
    /\ sched.fires < MaxFires
    /\ FreeSlots # {}
    /\ LET s == CHOOSE x \in FreeSlots : \A y \in FreeSlots : x <= y
       IN  tasks' = [tasks EXCEPT ![s] = StartedTask(tm.topic, "timer")]
    /\ sched' = [sched EXCEPT !.fires = @ + 1]
    /\ UNCHANGED <<store, bulk, clock, ticks, newsCache, lastSearch, round>>

\* the promise of a timer's fetchNewsForTopic settles; nothing handles its
\* rejection
TimerTaskSettle(s) ==
    /\ tasks[s].origin = "timer"
    /\ tasks[s].pc \in {"done", "failed"}
    /\ tasks' = [tasks EXCEPT ![s] = IdleTask]
    /\ sched' = [sched EXCEPT !.unhandled = @ \/ tasks[s].pc = "failed"]
    /\ UNCHANGED <<store, bulk, clock, ticks, newsCache, lastSearch, round>>

\* a filter that also takes the entries published exactly at the cutoff
expiredItemsAtCutoff(allItems, cutoffTime) ==
    {item \in allItems : /\ item.type = "news"
                         /\ item.publishedAt.num
                         /\ item.publishedAt.secs <= cutoffTime}

\* purgeOldNews: the filter of lines 356-364 on the entries read
expiredItems(allItems, cutoffTime) ==
    {item \in allItems : /\ item.type = "news"
                         /\ item.publishedAt.num
                         /\ item.publishedAt.secs < cutoffTime}

\* what a purge call did: the entries it read, those it removed, whether a
\* removal failed, whether an error reached the caller, the count returned
NoPurge ==
    [n |-> 0, retentionDays |-> 0, at |-> 0, listed |-> {}, deleted |-> {},
     failed |-> FALSE, thrown |-> FALSE, returned |-> 0]

Purged(sc, retentionDays, listed, deleted, failed, returned) ==
    [sc EXCEPT !.purge = [n |-> sc.purge.n + 1, retentionDays |-> retentionDays,
                          at |-> clock, listed |-> listed, deleted |-> deleted,
                          failed |-> failed, thrown |-> FALSE, returned |-> returned]]

\* NewsKnowledgeManager.purgeOldNews, no store call failing; sc is the
\* service's state but for the record of the call
purgeOldNews(retentionDays, sc) ==
    LET cutoffTime == clock - (retentionDays * DAY)
    IN  \E allItems \in getKnowledgeNoQuery(PURGE_LIMIT) :
          LET expired == expiredItems(allItems, cutoffTime)
          IN  /\ store' = store \ expired
              /\ sched' = Purged(sc, retentionDays, allItems, expired, FALSE,
                                 Cardinality(expired))

\* a purge that skips the entry whose removal fails and goes on
purgeOldNewsSkipsFailure(retentionDays, sc) ==
    LET cutoffTime == clock - (retentionDays * DAY)
    IN  \E allItems \in getKnowledgeNoQuery(PURGE_LIMIT) :
          \E bad \in expiredItems(allItems, cutoffTime) :
            LET done == expiredItems(allItems, cutoffTime) \ {bad}
            IN  /\ store' = store \ done
                /\ sched' = Purged(sc, retentionDays, allItems, done, TRUE,
                                   Cardinality(done))

\* NewsKnowledgeManager.purgeOldNews when a removeKnowledge call fails:
\* the entries before it in the loop are removed, the error is caught at
\* line 375 and 0 is returned
purgeOldNewsError(retentionDays, sc) ==
    LET cutoffTime == clock - (retentionDays * DAY)
    IN  \E allItems \in getKnowledgeNoQuery(PURGE_LIMIT) :
          \E order \in Orderings(expiredItems(allItems, cutoffTime)) :
            \E k \in 1..Len(order) :
              LET done == {order[i] : i \in 1..(k - 1)}
              IN  /\ store' = store \ done
                  /\ sched' = Purged(sc, retentionDays, allItems, done, TRUE, 0)

\* the callback of the daily setInterval: () => this.purgeOldNews()
PurgeTimerFire(tm) ==
    /\ tm \in sched.timers
    /\ tm.kind = "purge"
    /\ sched.fires < MaxFires
    /\ purgeOldNews(DEFAULT_RETENTION_DAYS, [sched EXCEPT !.fires = @ + 1])
    /\ UNCHANGED <<bulk, clock, ticks, newsCache, lastSearch, tasks, round>>

\* NewsKnowledgeManager.purgeOldNews(retentionDays) called by a collaborator
PurgeCall(retentionDays) ==
    /\ sched.purge.n < MaxPurges
    /\ purgeOldNews(retentionDays, sched)
    /\ UNCHANGED <<bulk, clock, ticks, newsCache, lastSearch, tasks, round>>

PurgeCallError(retentionDays) ==
    /\ sched.purge.n < MaxPurges
    /\ purgeOldNewsError(retentionDays, sched)
    /\ UNCHANGED <<bulk, clock, ticks, newsCache, lastSearch, tasks, round>>

\* NewsKnowledgeManager.storeNewsItem(newsItem, type) called by a
\* collaborator with a type of its own
StoreTyped(newsItem, type) ==
    /\ ~storeThrowsBeforePut(newsItem)
    /\ store' = createKnowledge([knowledgeItem(newsItem, clock) EXCEPT !.type = type])
    /\ UNCHANGED <<bulk, clock, ticks, newsCache, lastSearch, tasks, round, sched>>

-----------------------------------------------------------------------------
(* Specifications *)

\* the settings of a runtime: NEWS_TOPICS, NEWS_FETCH_INTERVAL_MINUTES, and
\* whether TAVILY_API_KEY is set
Settings(topics, interval, apiKey) ==
    [topics |-> topics, interval |-> interval, apiKey |-> apiKey]

\* a service just constructed
NewService(settings) ==
    [initialized |-> FALSE, settings |-> settings, topics |-> <<>>,
     fetchIntervals |-> <<>>, timers |-> {}, nextId |-> 1,
     inits |-> [i \in Inits |-> "idle"], fires |-> 0,
     stopped |-> FALSE, unhandled |-> FALSE, purge |-> NoPurge]

\* a service whose initialize() has returned
RunningService(settings) ==
    LET new == NewService(settings)
        withTopics == [new EXCEPT !.topics = initializeTopics(settings)]
    IN  [scheduleNewsCleanup(startFetchIntervals(withTopics)) EXCEPT
           !.initialized = TRUE, !.inits[1] = "done"]

NoSearch ==
    [n |-> 0, opts |-> NoOptions, result |-> <<>>, fromCache |-> FALSE,
     calls |-> <<>>, failed |-> FALSE, found |-> <<>>, first |-> <<>>]

InitData ==
    /\ store = {}
    /\ clock = Now0
    /\ ticks = 0
    /\ newsCache = <<>>
    /\ lastSearch = NoSearch
    /\ tasks = [s \in Slots |-> IdleTask]
    /\ round = NoRound

\* Searching a running service: the host fetches topics, then searches as
\* time passes
SearchResponses == {<<ResultAlpha, ResultDelta>>, <<ResultBeta>>}

InitSearch ==
    /\ InitData
    /\ bulk = 0
    /\ sched = RunningService(Settings(Some(<<"technology", "science">>), Some("60"), TRUE))

NextSearch ==
    \/ (~round.active /\ Tick)
    \/ (~round.active /\ \E options \in SearchInputs : searchNews(options))
    \/ (~round.active /\ \E options \in SearchInputs : searchNewsError(options))
    \/ (lastSearch.n = 0 /\ ticks = 0 /\ \E t \in TopicNames : FetchNews(<<t>>))
    \/ \E s \in Slots, response \in SearchResponses : ProviderReturn(s, response)
    \/ \E s \in Slots : UrlLookup(s)
    \/ \E s \in Slots : TitleLookup(s)
    \/ \E s \in Slots : StoreItem(s)
    \/ FetchNewsReturn

SpecSearch == InitSearch /\ [][NextSearch]_vars

\* The query cache and the query path on their own: a few searches over
\* one fetched response
CacheInputs ==
    { NoOptions,
      Opt(Absent, Absent, Some(1), Absent, Absent, Absent, Absent),
      Opt(Some("q"), Absent, Some(2), Absent, Absent, Absent, Absent) }

CacheResponses == {<<ResultAlpha, ResultBeta>>}

NextCache ==
    \/ (~round.active /\ Tick)
    \/ (~round.active /\ \E options \in CacheInputs : searchNews(options))
    \/ (~round.active /\ \E options \in CacheInputs : searchNewsError(options))
    \/ (lastSearch.n = 0 /\ ticks = 0 /\ FetchNews(<<"technology">>))
    \/ \E s \in Slots, response \in CacheResponses : ProviderReturn(s, response)
    \/ \E s \in Slots : UrlLookup(s)
    \/ \E s \in Slots : TitleLookup(s)
    \/ \E s \in Slots : StoreItem(s)
    \/ FetchNewsReturn

SpecCache == InitSearch /\ [][NextCache]_vars

\* Searches whose options objects have the same fields inserted in
\* different orders, or arrays listing the same elements in different
\* orders.  `inserted` is a ghost field of such an object: the names of its
\* fields in the order of their insertion.
InsertedAs(options, order) == ("inserted" :> order) @@ options

InsertionOrders ==
    { <<"limit", "sources", "topics">>, <<"topics", "sources", "limit">> }

KeyInputs ==
    { InsertedAs(Opt(Absent, Absent, limit, Absent, Absent, Some(sources), Some(topics)),
                 order) :
        limit \in {Some(1), Some(2)},
        sources \in {<<"s1", "s2">>, <<"s2", "s1">>},
        topics \in {<<"technology", "science">>, <<"science", "technology">>},
        order \in InsertionOrders }

NextKeys ==
    \/ (~round.active /\ \E options \in KeyInputs : searchNews(options))
    \/ (lastSearch.n = 0 /\ FetchNews(<<"technology">>))
    \/ \E s \in Slots, response \in CacheResponses : ProviderReturn(s, response)
    \/ \E s \in Slots : UrlLookup(s)
    \/ \E s \in Slots : TitleLookup(s)
    \/ \E s \in Slots : StoreItem(s)
    \/ FetchNewsReturn

SpecKeys == InitSearch /\ [][NextKeys]_vars

\* Searches made before and after a fetch and a purge
FreshResponses == {<<ResultAlpha>>, <<ResultBeta>>}

NextFresh ==
    \/ (~round.active /\ Tick)
    \/ (~round.active /\ searchNews(NoOptions))
    \/ FetchNews(<<"technology">>)
    \/ \E s \in Slots, response \in FreshResponses : ProviderReturn(s, response)
    \/ \E s \in Slots : UrlLookup(s)
    \/ \E s \in Slots : TitleLookup(s)
    \/ \E s \in Slots : StoreItem(s)
    \/ FetchNewsReturn
    \/ (~round.active /\ PurgeCall(DEFAULT_RETENTION_DAYS))

SpecFresh == InitSearch /\ [][NextFresh]_vars

\* Text searches with every shape of date range, topic filter and source
\* filter
ComplexityInputs ==
    { Opt(Some("q"), Absent, limit, fromDate, toDate, sources, topics) :
        limit \in {Absent, Some(1), Some(2)},
        fromDate \in {Absent, Some(Now0 - 3 * DAY), Some(Now0 - 7 * DAY),
                      Some(Now0 - 20 * DAY), Some(Now0 - 30 * DAY), Some(Now0 - 45 * DAY)},
        toDate \in {Absent, Some(Now0)},
        sources \in {Absent, Some(<<>>), Some(<<"s1">>)},
        topics \in {Absent, Some(<<>>), Some(<<"technology">>)} }

NextComplexity ==
    \/ \E options \in ComplexityInputs : searchNews(options)
    \/ \E options \in ComplexityInputs : searchNewsError(options)

SpecComplexity == InitSearch /\ [][NextComplexity]_vars

\* Purging: a table filled by fetches and by a collaborator's note, purged
\* by the daily timer and by direct calls; the fetches start before the
\* first purge
PurgeResponses == {<<ResultAlpha, ResultEpsilon>>, <<ResultDelta, ResultBeta>>}

PurgeRetentions == {20, 30}

MemoItem ==
    [title |-> "Memo", content |-> PlainText, source |-> "desk", url |-> "",
     publishedAt |-> DateOf(Num(Now0 - 40 * DAY)), topics |-> <<>>]

NextPurge ==
    \/ (sched.purge.n = 0 /\ FetchNews(<<"technology">>))
    \/ \E s \in Slots, response \in PurgeResponses : ProviderReturn(s, response)
    \/ \E s \in Slots : UrlLookup(s)
    \/ \E s \in Slots : TitleLookup(s)
    \/ \E s \in Slots : StoreItem(s)
    \/ FetchNewsReturn
    \/ StoreTyped(MemoItem, "note")
    \/ \E retentionDays \in PurgeRetentions : PurgeCall(retentionDays)
    \/ \E retentionDays \in PurgeRetentions : PurgeCallError(retentionDays)
    \/ \E tm \in sched.timers : PurgeTimerFire(tm)

SpecPurge == InitSearch /\ [][NextPurge]_vars

\* Storing, as time passes, articles that share a url or a title and source
\* and get through the duplicate check (its store calls may fail)
IdentityResponses == {<<ResultAlpha>>, <<ResultAlphaAgain, ResultAlphaUpper>>}

IdentityTopicLists == {<<"technology">>, <<"science", "technology">>}

NextIdentity ==
    \/ (~round.active /\ Tick)
    \/ \E topics \in IdentityTopicLists : FetchNews(topics)
    \/ \E s \in Slots, response \in IdentityResponses : ProviderReturn(s, response)
    \/ \E s \in Slots : UrlLookupError(s)
    \/ \E s \in Slots : TitleLookupError(s)
    \/ \E s \in Slots : StoreItem(s)
    \/ FetchNewsReturn

SpecIdentity == InitSearch /\ [][NextIdentity]_vars

\* Fetching provider responses some of whose results lack a title or a
\* content
SkipResponses ==
    {<<ResultUntitled, ResultAlpha>>, <<ResultBlank, ResultBeta>>, <<ResultBlank>>,
     <<ResultBeta, ResultAlpha>>}

NextSkip ==
    \/ \E topics \in IdentityTopicLists : FetchNews(topics)
    \/ \E s \in Slots, response \in SkipResponses : ProviderReturn(s, response)
    \/ \E s \in Slots : UrlLookup(s)
    \/ \E s \in Slots : TitleLookup(s)
    \/ \E s \in Slots : StoreItem(s)
    \/ \E s \in Slots : StoreItemError(s)
    \/ FetchNewsReturn

SpecSkip == InitSearch /\ [][NextSkip]_vars

\* Fetching results that carry no publishedDate and whose texts hold date
\* expressions: "January 5, 2025", "January 1st, 2025" (no date to
\* new Date), "5 January 2025", "2025-01-05", "13/45/2025" (no date),
\* "2 hours ago", "3 days ago", "yesterday", "today"
DateExprs ==
    {DateExpr(1, 0, Num(Now0 - 36 * DAY)), DateExpr(1, 0, NaN),
     DateExpr(2, 0, Num(Now0 - 35 * DAY)), DateExpr(3, 0, Num(Now0 - 34 * DAY)),
     DateExpr(4, 0, NaN), DateExpr(5, 2, NaN), DateExpr(6, 3, NaN),
     DateExpr(7, 0, NaN), DateExpr(8, 0, NaN)}

DateTexts ==
    {[empty |-> FALSE, dates |-> dates] :
        dates \in {<<>>} \cup {<<a>> : a \in DateExprs}
                         \cup {<<a, b>> : a \in DateExprs, b \in DateExprs}
                         \cup {<<DateExpr(8, 0, NaN), DateExpr(4, 0, NaN),
                                 DateExpr(1, 0, NaN), DateExpr(3, 0, Num(Now0 - 34 * DAY))>>}}

DateResponses ==
    {<<Result("Beta", content, "https://s2.example/b", "", Absent, Some(rawContent))>> :
        content \in {PlainText, [empty |-> FALSE, dates |-> <<DateExpr(6, 3, NaN)>>]},
        rawContent \in DateTexts}

NextDates ==
    \/ (~round.active /\ Tick)
    \/ FetchNews(<<"technology">>)
    \/ \E s \in Slots, response \in DateResponses : ProviderReturn(s, response)
    \/ \E s \in Slots : UrlLookup(s)
    \/ \E s \in Slots : TitleLookup(s)
    \/ \E s \in Slots : StoreItem(s)
    \/ FetchNewsReturn

SpecDates == InitSearch /\ [][NextDates]_vars

\* Fetching on a running service whose table may hold many entries
IngestResponses ==
    {<<ResultAlpha>>, <<ResultAlphaAgain, ResultGamma>>, <<ResultUntitled, ResultDelta>>}

IngestTopicLists ==
    {<<"technology">>, <<"technology", "science">>, <<"technology", "technology">>}

InitIngest ==
    /\ InitData
    /\ bulk \in {0, BulkMany}
    /\ sched = RunningService(Settings(Some(<<"technology", "science">>), Some("60"), TRUE))

NextIngest ==
    \/ \E topics \in IngestTopicLists : FetchNews(topics)
    \/ \E s \in Slots, response \in IngestResponses : ProviderReturn(s, response)
    \/ \E s \in Slots : ProviderError(s)
    \/ \E s \in Slots : UrlLookup(s)
    \/ \E s \in Slots : TitleLookup(s)
    \/ \E s \in Slots : StoreItem(s)
    \/ FetchNewsReturn

SpecIngest == InitIngest /\ [][NextIngest]_vars

\* Fetching while the store calls of the duplicate check may fail
DedupResponses == {<<ResultAlpha>>, <<ResultAlphaUpper, ResultAlphaAgain>>}

DedupTopicLists == {<<"technology">>, <<"technology", "science">>}

NextDedup ==
    \/ \E topics \in DedupTopicLists : FetchNews(topics)
    \/ \E s \in Slots, response \in DedupResponses : ProviderReturn(s, response)
    \/ \E s \in Slots : ProviderError(s)
    \/ \E s \in Slots : UrlLookup(s)
    \/ \E s \in Slots : UrlLookupError(s)
    \/ \E s \in Slots : TitleLookup(s)
    \/ \E s \in Slots : TitleLookupError(s)
    \/ \E s \in Slots : StoreItem(s)
    \/ FetchNewsReturn

SpecDedup == InitIngest /\ [][NextDedup]_vars

\* The life of a service: initialize, timers, stop
SchedSettings ==
    { Settings(Some(<<"technology">>), Some("60"), TRUE),
      Settings(Some(<<"technology", "science">>), Some("60"), TRUE),
      Settings(Some(<<"technology">>), Some("60"), FALSE) }

SchedResponses == {<<ResultAlpha>>, <<>>}

InitSched ==
    /\ InitData
    /\ bulk = 0
    /\ \E settings \in SchedSettings : sched = NewService(settings)

NextSched ==
    \/ \E i \in Inits : InitializeCall(i)
    \/ \E i \in Inits : InitializeManager(i)
    \/ \E i \in Inits : InitializeInstall(i)
    \/ InitializeReturn
    \/ Stop
    \/ \E tm \in sched.timers : FetchTimerFire(tm)
    \/ \E tm \in sched.timers : PurgeTimerFire(tm)
    \/ \E s \in Slots : TimerTaskSettle(s)
    \/ \E s \in Slots, response \in SchedResponses : ProviderReturn(s, response)
    \/ \E s \in Slots : ProviderError(s)
    \/ \E s \in Slots : UrlLookup(s)
    \/ \E s \in Slots : TitleLookup(s)
    \/ \E s \in Slots : StoreItem(s)

SpecSched == InitSched /\ [][NextSched]_vars

\* Starting and stopping a service, no timer firing
NextStart ==
    \/ \E i \in Inits : InitializeCall(i)
    \/ \E i \in Inits : InitializeManager(i)
    \/ \E i \in Inits : InitializeInstall(i)
    \/ InitializeReturn
    \/ Stop
    \/ \E s \in Slots, response \in SchedResponses : ProviderReturn(s, response)
    \/ \E s \in Slots : ProviderError(s)
    \/ \E s \in Slots : UrlLookup(s)
    \/ \E s \in Slots : TitleLookup(s)
    \/ \E s \in Slots : StoreItem(s)

SpecStart == InitSched /\ [][NextStart]_vars

\* Starting and stopping a service whose NEWS_TOPICS names a topic twice
TopicListSettings ==
    { Settings(Some(<<"technology", "technology">>), Some("60"), TRUE),
      Settings(Some(<<"technology", "science", "technology">>), Some("60"), TRUE),
      Settings(Some(<<"technology", "science">>), Some("60"), TRUE) }

InitTopicLists ==
    /\ InitData
    /\ bulk = 0
    /\ \E settings \in TopicListSettings : sched = NewService(settings)

SpecTopicLists == InitTopicLists /\ [][NextStart]_vars

\* Starting a service under every shape of the settings
TopicsSettings ==
    { Absent, Some(<<"">>), Some(<<" ">>), Some(<<" ", " ">>),
      Some(<<"technology">>), Some(<<" technology", "", "science ">>) }

IntervalSettings ==
    { Absent, Some(""), Some(" "), Some("abc"), Some("0"), Some("-5"),
      Some("15"), Some("15.7"), Some("12abc"), Some(" 30") }

ConfigResponses == {<<ResultAlpha>>}

InitConfig ==
    /\ InitData
    /\ bulk = 0
    /\ \E topics \in TopicsSettings, interval \in IntervalSettings :
          sched = NewService(Settings(topics, interval, TRUE))

NextConfig ==
    \/ \E i \in Inits : InitializeCall(i)
    \/ \E i \in Inits : InitializeManager(i)
    \/ \E i \in Inits : InitializeInstall(i)
    \/ \E s \in Slots, response \in ConfigResponses : ProviderReturn(s, response)
    \/ \E s \in Slots : UrlLookup(s)
    \/ \E s \in Slots : TitleLookup(s)
    \/ \E s \in Slots : StoreItem(s)
    \/ InitializeReturn

SpecConfig == InitConfig /\ [][NextConfig]_vars

\* every operation of the model, the failures of the store calls included
Next ==
    \/ NextSearch
    \/ NextIngest
    \/ NextSched
    \/ \E s \in Slots : UrlLookupError(s)
    \/ \E s \in Slots : TitleLookupError(s)
    \/ \E s \in Slots : StoreItemError(s)
    \/ NextPurge

Spec == InitSched /\ [][Next]_vars

-----------------------------------------------------------------------------
(* The claims of the specification, C1 to C10 *)

\* the limit a search is entitled to: options.limit, 10 when it is absent
claimedLimit(options) == IF Has(options.limit) THEN Val(options.limit) ELSE 10

\* C1: every call search(options), a call answered from the cache
\* included, returns at most options.limit entries (10 when limit is absent).
C1_AtMostLimit ==
    lastSearch.n > 0 => Len(lastSearch.result) <= claimedLimit(lastSearch.opts)

\* C2: once an article with a url is persisted, a later fetch of a topic
\* whose response holds an article with that url adds nothing: the table
\* holds one entry for the url, and the later fetch does not report the
\* article among its new entries.
C2_IdempotentIngestion ==
    /\ \A e1, e2 \in store : (e1.url # "" /\ e1.url = e2.url) => e1 = e2
    /\ \A s \in Slots : \A i \in DOMAIN tasks[s].items :
           tasks[s].items[i].url \notin tasks[s].known

\* the four predicates of a search, as the specification states them
Passes(e, options) ==
    /\ e.type = "news"
    /\ Has(options.fromDate) =>
           (e.publishedAt.num /\ e.publishedAt.secs >= Val(options.fromDate))
    /\ Has(options.toDate) =>
           (e.publishedAt.num /\ e.publishedAt.secs <= Val(options.toDate))
    /\ (Has(options.sources) /\ Val(options.sources) # <<>>) =>
           e.source \in Range(Val(options.sources))
    /\ (Has(options.topics) /\ Val(options.topics) # <<>>) =>
           Range(e.topics) \cap Range(Val(options.topics)) # {}

Newer(a, b) == a.publishedAt.num /\ b.publishedAt.num /\ a.publishedAt.secs > b.publishedAt.secs

\* result is exactly the newest entries of the table that pass, up to the limit
ExactlyTheNewest(result, table, options) ==
    LET passing == {e \in table : Passes(e, options)}
    IN  /\ Range(result) \subseteq passing
        /\ Cardinality(Range(result)) = Len(result)
        /\ Len(result) = Min(claimedLimit(options), Cardinality(passing))
        /\ \A e \in passing \ Range(result) : \A i \in DOMAIN result : ~Newer(e, result[i])

\* C3: a search without query and conversationContext that reads the
\* store returns exactly the stored entries passing the type, date, source
\* and topic predicates, the newest of them up to the limit.
C3_FilterCorrectness ==
    [][(/\ lastSearch'.n # lastSearch.n
        /\ ~lastSearch'.fromCache
        /\ ~lastSearch'.failed
        /\ ListAllPath(lastSearch'.opts))
       => ExactlyTheNewest(lastSearch'.result, store, lastSearch'.opts)]_vars

\* C4: in every list a search returns, each entry's publishedAt is
\* greater than or equal to that of the entry after it.
C4_NewestFirst ==
    lastSearch.n > 0 =>
        \A i \in 1..(Len(lastSearch.result) - 1) :
            /\ lastSearch.result[i].publishedAt.num
            /\ lastSearch.result[i + 1].publishedAt.num
            /\ lastSearch.result[i].publishedAt.secs >= lastSearch.result[i + 1].publishedAt.secs

\* C5: a search made when the cache holds the entry an earlier search with
\* identical options stored is answered with that entry's results and
\* without a store call if the entry is less than 5 minutes old; if it is 5
\* minutes old or older the search is not answered from the cache and calls
\* the store.
C5_CacheTTL ==
    [][lastSearch'.n # lastSearch.n =>
         \A key \in DOMAIN newsCache :
             newsCache[key].by = lastSearch'.opts =>
                 IF clock - newsCache[key].timestamp < 5 * 60
                 THEN /\ lastSearch'.fromCache
                      /\ lastSearch'.calls = <<>>
                      /\ lastSearch'.result = newsCache[key].results
                 ELSE /\ ~lastSearch'.fromCache
                      /\ lastSearch'.calls # <<>>]_vars

\* C5, the case reached: a search repeated exactly 5 minutes after the
\* search with the same options that cached its result went to the store
C5_ExpiredAtFiveMinutes ==
    /\ lastSearch.n > 0
    /\ lastSearch.found = <<[age |-> 5 * 60, by |-> lastSearch.opts]>>
    /\ ~lastSearch.fromCache
    /\ lastSearch.calls # <<>>
    /\ lastSearch.result # <<>>

\* the other case of C5: a search repeated one second before the entry
\* is 5 minutes old was answered from the cache
ServedJustBeforeFiveMinutes ==
    /\ lastSearch.n > 0
    /\ lastSearch.found = <<[age |-> 5 * 60 - 1, by |-> lastSearch.opts]>>
    /\ lastSearch.fromCache
    /\ lastSearch.calls = <<>>
    /\ lastSearch.result # <<>>

\* C6: a search is answered from a cache entry only if a search with the
\* same query, conversationContext, limit, fromDate, toDate, sources and
\* topics stored that entry.
C6_KeyIsWholeOptions ==
    lastSearch.fromCache => lastSearch.found[1].by = lastSearch.opts

\* C7: after stop() no timer installed at start is active, neither a
\* topic's fetch timer nor the daily purge timer.
C7_StopCancelsEveryTimer ==
    sched.stopped => sched.timers = {}

\* C8: when a round of fetchNews has returned, each topic whose fetch
\* failed maps to an empty list in the per-topic result, and the entries
\* reported for the other topics are in the table.
C8_PartialFailureIsolation ==
    (~round.active /\ round.n > 0) =>
        /\ \A i \in round.failed : round.byTopic[round.topics[i]] = <<>>
        /\ \A i \in (1..Len(round.topics)) \ round.failed :
               \A k \in DOMAIN round.results[i] :
                   \E e \in store : e.id = round.results[i][k].id

\* C9: a failure of a fetchNewsForTopic that a timer started never leaves
\* the timer's callback unhandled.
C9_NoUnhandledFailure ==
    ~sched.unhandled

\* the publishedAt the specification gives a result: the provider's date,
\* else the date extracted from the raw content, else the date extracted
\* from the content, else now
claimedStamp(result, now) ==
    IF Has(result.publishedDate) /\ Val(result.publishedDate) # ""
    THEN ParseDate(Val(result.publishedDate))
    ELSE LET fromRaw == IF Has(result.rawContent)
                        THEN extractDateFromContent(Val(result.rawContent), now)
                        ELSE NullDate
             fromContent == extractDateFromContent(result.content, now)
         IN  IF fromRaw.kind # "null" THEN fromRaw.t
             ELSE IF fromContent.kind # "null" THEN fromContent.t
             ELSE Num(now)

\* C10: a result with title and content that the duplicate check let
\* through is in the table once storeNewsItem has run, with a valid
\* publishedAt: the specification's stamp if the entry is new.
C10_NeverUnstamped ==
    [][\A s \in Slots :
         (tasks[s].pc = "store" /\ tasks'[s] # tasks[s]) =>
             \E e \in store' :
                 /\ e.id = stringToUuid(idBase(tasks[s].cand))
                 /\ e.publishedAt.num
                 /\ e \notin store =>
                        e.publishedAt = claimedStamp(Head(tasks[s].pending), clock)]_vars

\* the entries a purge with this retention is to delete among those listed
claimedExpired(listed, now, retentionDays) ==
    {e \in listed : /\ e.type = "news"
                    /\ e.publishedAt.num
                    /\ e.publishedAt.secs < now - retentionDays * 24 * 60 * 60}

\* C11: a purge call that meets no failure deletes exactly the listed
\* entries of type "news" whose numeric publishedAt is strictly less than
\* now minus retentionDays days; every other entry stays in the table.
C11_PurgeCorrectness ==
    [][(sched'.purge.n # sched.purge.n /\ ~sched'.purge.failed) =>
          /\ store' = store \ claimedExpired(sched'.purge.listed, clock,
                                             sched'.purge.retentionDays)
          /\ sched'.purge.returned =
                 Cardinality(claimedExpired(sched'.purge.listed, clock,
                                            sched'.purge.retentionDays))]_vars

\* C11, the case reached: a purge with 30 days of retention deleted an
\* entry and left one published exactly at the cutoff, one without a
\* numeric publishedAt and an old entry that is not news
C11_BoundaryKept ==
    /\ sched.purge.n > 0
    /\ ~sched.purge.failed
    /\ sched.purge.retentionDays = 30
    /\ sched.purge.deleted # {}
    /\ \E e \in store \cap sched.purge.listed :
           e.type = "news" /\ e.publishedAt = Num(sched.purge.at - 30 * DAY)
    /\ \E e \in store \cap sched.purge.listed :
           e.type = "news" /\ ~e.publishedAt.num
    /\ \E e \in store \cap sched.purge.listed :
           e.type # "news" /\ e.publishedAt.num
                           /\ e.publishedAt.secs < sched.purge.at - 30 * DAY

C13_BatchEscalation ==
    [][(/\ lastSearch'.n # lastSearch.n
        /\ ~lastSearch'.fromCache
        /\ ~lastSearch'.failed
        /\ ~ListAllPath(lastSearch'.opts))
       => LET options == lastSearch'.opts
              calls == lastSearch'.calls
              first == lastSearch'.first[1]
          IN  /\ Len(calls) \in {1, 2}
              /\ \A i \in DOMAIN calls : calls[i].op = "getKnowledge"
              /\ Len(calls) = 2 <=>
                     (first.size > 0 /\ first.matching < claimedLimit(options))
              /\ Len(calls) = 2 =>
                     calls[2].limit = claimedLimit(options)
                                        * estimateFilterComplexity(options) * 10]_vars

\* C13, the cases reached: a search whose first batch held an entry but
\* fewer matches than the limit made the second query
C13_Escalated ==
    /\ lastSearch.n > 0
    /\ lastSearch.first # <<>>
    /\ lastSearch.first[1].size > 0
    /\ Len(lastSearch.calls) = 2
    /\ lastSearch.result # <<>>

\* a search whose first batch held as many matches as the limit made one query
NotEscalated ==
    /\ lastSearch.n > 0
    /\ lastSearch.first # <<>>
    /\ lastSearch.first[1].matching = claimedLimit(lastSearch.opts)
    /\ Len(lastSearch.calls) = 1

\* the timers of a started engine: one fetch timer for each topic, and a
\* purge timer
TimersInstalled(sc) ==
    /\ Cardinality({tm \in sc.timers : tm.kind = "fetch"}) >= Len(sc.topics)
    /\ \A k \in 1..Len(sc.topics) :
           \E tm \in sc.timers : tm.kind = "fetch" /\ tm.topic = sc.topics[k].name
    /\ \E tm \in sc.timers : tm.kind = "purge"

\* C14: the engine becomes ready only at the step at which the first
\* fetchNews() of an initialize call, over every configured topic, has run
\* to completion, the fetch timers and the purge timer having been
\* installed before (they are all there unless stop() was called since).
C14_ReadyAfterInitialFetch ==
    [][(sched'.initialized /\ ~sched.initialized) =>
          \E i \in Inits :
              /\ sched.inits[i] = "fetch"
              /\ round.owner = i
              /\ round.active /\ ~round'.active
              /\ sched.topics # <<>>
              /\ round.topics = TopicNamesOf(sched.topics)
              /\ \A k \in 1..Len(round.topics) : tasks[k].pc \in {"done", "failed"}
              /\ \E tm \in sched.timers : tm.kind = "purge"
              /\ ~sched.stopped => TimersInstalled(sched)]_vars

\* C14, the case reached: a ready engine with its timers, whose first
\* fetch stored an article
C14_Ready ==
    /\ sched.initialized
    /\ sched.inits[1] = "done"
    /\ TimersInstalled(sched)
    /\ ~round.active
    /\ round.allItems # <<>>

\* C15: stop() on a stopped engine, or on one never started, changes
\* nothing, and stop() twice leaves the state one stop() leaves.
C15_StopIdempotent ==
    /\ stopFetchIntervals(stopFetchIntervals(sched)) = stopFetchIntervals(sched)
    /\ sched.stopped => stopFetchIntervals(sched) = sched
    /\ sched.nextId = 1 => stopFetchIntervals(sched) = sched

\* C15, the case reached: an engine started with two topics and stopped
C15_StoppedAfterStart ==
    /\ sched.stopped
    /\ sched.initialized
    /\ Len(sched.topics) = 2
    /\ sched.fetchIntervals = <<>>

\* C16: a checkForDuplicate that returns false (the candidate goes on to
\* storeNewsItem's write) is about a candidate without url or with a url
\* that no entry of the table carries.
C16_UrlDedup ==
    [][\A s \in Slots :
          (tasks[s].pc \in {"checkUrl", "checkTitle"} /\ tasks'[s].pc = "store") =>
              \/ tasks[s].cand.url = ""
              \/ ~(\E e \in store : e.url = tasks[s].cand.url)]_vars

\* what the title step is said to answer, on the record of a check
claimedTitleDuplicate(check) ==
    \/ \E t \in check.titles : Lower(t) = Lower(check.of)
    \/ \E x \in check.sims : x > 95

\* C17: a check whose title query returned gives true exactly when a
\* returned title equals the candidate's ignoring case or a similarity
\* exceeds 0.95; the query returns at most 5 results; 0.96 is a duplicate,
\* 0.80 and 0.95 alone are not.
C17_TitleFallback ==
    \A s \in Slots :
        LET check == tasks[s].check
        IN  check.title \in {"hit", "miss"} =>
              /\ check.n <= 5
              /\ check.url \in {"none", "miss", "failed"}
              /\ (check.ret = "true") <=> claimedTitleDuplicate(check)
              /\ (check.ret = "false") <=> ~claimedTitleDuplicate(check)
              /\ 96 \in check.sims => check.ret = "true"
              /\ (check.sims \subseteq {0, 80, 95} /\ ~(\E t \in check.titles :
                                                         Lower(t) = Lower(check.of)))
                    => check.ret = "false"

\* C17, the case reached: a result of another title with similarity 0.95,
\* not a duplicate
C17_AtThresholdNotDuplicate ==
    \E s \in Slots :
        /\ tasks[s].check.title = "miss"
        /\ tasks[s].check.sims = {95}
        /\ tasks[s].check.ret = "false"
        /\ tasks[s].pc = "store"

\* the other cases: 0.96 on another title, and the same title in another case
C17_AboveThresholdDuplicate ==
    \E s \in Slots :
        /\ tasks[s].check.title = "hit"
        /\ tasks[s].check.sims = {96}
        /\ ~(\E t \in tasks[s].check.titles : Lower(t) = Lower(tasks[s].check.of))

C17_SameTitleOtherCase ==
    \E s \in Slots :
        /\ tasks[s].check.title = "hit"
        /\ tasks[s].check.sims = {0}
        /\ tasks[s].check.of \notin tasks[s].check.titles

C18_TitleFailed ==
    \E s \in Slots :
        /\ tasks[s].check.title = "failed"
        /\ tasks[s].pc = "store"

\* the multiplier as it is described: 1, and a term for the date bounds,
\* one for the topics and one for the sources
claimedDateTerm(options) ==
    CASE Has(options.fromDate) /\ Has(options.toDate)
           /\ Val(options.toDate) - Val(options.fromDate) < 7 * DAY -> 5
      [] Has(options.fromDate) /\ Has(options.toDate)
           /\ Val(options.toDate) - Val(options.fromDate) >= 7 * DAY
           /\ Val(options.toDate) - Val(options.fromDate) < 30 * DAY -> 4
      [] Has(options.fromDate) /\ Has(options.toDate)
           /\ Val(options.toDate) - Val(options.fromDate) >= 30 * DAY -> 3
      [] Has(options.fromDate) # Has(options.toDate) -> 2
      [] OTHER -> 0

claimedMultiplier(options) ==
    1 + claimedDateTerm(options)
      + (IF Has(options.topics) /\ Val(options.topics) # <<>> THEN 1 ELSE 0)
      + (IF Has(options.sources) /\ Val(options.sources) # <<>> THEN 1 ELSE 0)

DaysBetween(options) == Val(options.toDate) - Val(options.fromDate)

Unfiltered(options) ==
    /\ ~(Has(options.topics) /\ Val(options.topics) # <<>>)
    /\ ~(Has(options.sources) /\ Val(options.sources) # <<>>)

\* C19: the first store query of a text search asks for limit * multiplier
\* entries, the multiplier being 1 + date term + topics term + sources term;
\* it is 6 for a 3-day range, 5 for a 20-day range, 3 for topics and sources
\* without date bound, and always between 1 and 8.
C19_ComplexityMultiplier ==
    (lastSearch.n > 0 /\ ~lastSearch.fromCache /\ ~ListAllPath(lastSearch.opts)) =>
        LET options == lastSearch.opts
            requested == lastSearch.calls[1].limit
        IN  /\ lastSearch.calls[1].op = "getKnowledge"
            /\ requested = claimedLimit(options) * claimedMultiplier(options)
            /\ claimedMultiplier(options) \in 1..8
            /\ (Has(options.fromDate) /\ Has(options.toDate) /\ Unfiltered(options)
                  /\ DaysBetween(options) = 3 * DAY) => requested = claimedLimit(options) * 6
            /\ (Has(options.fromDate) /\ Has(options.toDate) /\ Unfiltered(options)
                  /\ DaysBetween(options) = 20 * DAY) => requested = claimedLimit(options) * 5
            /\ (~Has(options.fromDate) /\ ~Has(options.toDate)
                  /\ Has(options.topics) /\ Val(options.topics) # <<>>
                  /\ Has(options.sources) /\ Val(options.sources) # <<>>)
                  => requested = claimedLimit(options) * 3

\* C19, the case reached: a range of exactly 7 days, with topics and
\* sources, limit 2: the query asks for 2 * 6 entries
C19_WeekRange ==
    /\ lastSearch.n > 0
    /\ ~lastSearch.fromCache
    /\ Has(lastSearch.opts.fromDate) /\ Has(lastSearch.opts.toDate)
    /\ DaysBetween(lastSearch.opts) = 7 * DAY
    /\ lastSearch.opts.limit = Some(2)
    /\ lastSearch.calls # <<>>
    /\ lastSearch.calls[1].limit = 12

\* the largest multiplier: a 3-day range with topics and sources
C19_LargestMultiplier ==
    /\ lastSearch.n > 0
    /\ lastSearch.calls # <<>>
    /\ lastSearch.opts.limit = Absent
    /\ lastSearch.calls[1].limit = 80

\* the topics are set once an initialize call has passed initializeTopics
TopicsInitialized == \E i \in Inits : sched.inits[i] \in {"fetch", "done"}

IntervalsAre(minutes) == \A k \in 1..Len(sched.topics) : sched.topics[k].interval = minutes

\* C20: whatever the settings of a runtime that holds the search provider's
\* key, initialize does not fail, the topic list is not empty, its names are non-empty and every interval is a positive
\* integer; a missing, empty or non-numeric interval gives 60 (a zero or
\* negative one gives 1); a missing or blank topic list gives world news,
\* technology, science.
C20_ConfigurationFallback ==
    /\ \A i \in Inits : sched.inits[i] # "failed"
    /\ TopicsInitialized =>
         /\ sched.topics # <<>>
         /\ \A k \in 1..Len(sched.topics) :
                /\ sched.topics[k].name # ""
                /\ sched.topics[k].interval \in Nat \ {0}
         /\ sched.settings.interval \in {Absent, Some(""), Some(" "), Some("abc")}
                => IntervalsAre(60)
         /\ sched.settings.interval \in {Some("15"), Some("15.7")} => IntervalsAre(15)
         /\ sched.settings.interval \in {Some("0"), Some("-5")} => IntervalsAre(1)
         /\ sched.settings.topics \in {Absent, Some(<<"">>), Some(<<" ">>), Some(<<" ", " ">>)}
                => TopicNamesOf(sched.topics) = <<"world news", "technology", "science">>
         /\ sched.settings.topics = Some(<<" technology", "", "science ">>)
                => TopicNamesOf(sched.topics) = <<"technology", "science">>

\* C20, the case reached: a service started with a negative interval and
\* a topic list of blanks and commas
C20_StartedOnFallback ==
    /\ sched.initialized
    /\ sched.settings.interval = Some("-5")
    /\ sched.settings.topics = Some(<<" ", " ">>)
    /\ Len(sched.topics) = 3
    /\ Cardinality({tm \in sched.timers : tm.kind = "fetch"}) = 3

\* a service started without any setting
C20_StartedWithoutSettings ==
    /\ sched.initialized
    /\ sched.settings.interval = Absent
    /\ sched.settings.topics = Absent
    /\ IntervalsAre(60)

\* every entry the engine has written or returned from a write: the table,
\* the entries each running call has collected, those of the last round
WrittenItems ==
    store \cup UNION {Range(tasks[s].items) : s \in Slots} \cup Range(round.allItems)

\* C21: the id of an entry is determined by its url when it has one, by
\* its title and source otherwise: two entries with the same url have the
\* same id whatever their title, content, topics or time of writing.
C21_DeterministicId ==
    \A x \in WrittenItems : \A y \in WrittenItems :
        /\ (x.url # "" /\ x.url = y.url) => x.id = y.id
        /\ (x.url = "" /\ y.url = "" /\ x.title = y.title /\ x.source = y.source)
               => x.id = y.id

\* C21, the case reached: two entries written at different times with the
\* same url and different titles and topics
C21_SameUrlOtherTitle ==
    \E x \in WrittenItems : \E y \in WrittenItems :
        /\ x.url # "" /\ x.url = y.url
        /\ x.title # y.title
        /\ x.topics # y.topics
        /\ x.createdAt # y.createdAt
        /\ x.id = y.id

\* two entries without url, of the same title and source, written at
\* different times
C21_SameTitleAndSource ==
    \E x \in WrittenItems : \E y \in WrittenItems :
        /\ x.url = "" /\ y.url = ""
        /\ x.title = y.title /\ x.source = y.source
        /\ x.createdAt # y.createdAt

\* C22: every entry the engine has written has a title and a content that
\* are not empty.
C22_PersistedHaveTitleAndContent ==
    \A e \in WrittenItems : e.title # "" /\ ~e.content.empty

\* C22, the case reached: of a response whose first result has no content
\* the second result is in the table, the first is not, and the call is over
C22_BlankSkipped ==
    /\ \E e \in store : e.title = "Beta"
    /\ ~(\E e \in store : e.title = "Zeta")
    /\ ~round.active
    /\ round.failed = {}

\* C23: every entry a search returns lies within the date bounds of its
\* options: its publishedAt is a valid number, not below fromDate when
\* fromDate is set and not above toDate when toDate is set.
C23_DateBounds ==
    lastSearch.n > 0 =>
        \A i \in DOMAIN lastSearch.result :
            LET publishedAt == lastSearch.result[i].publishedAt
                options == lastSearch.opts
            IN  /\ Has(options.fromDate) =>
                       (publishedAt.num /\ publishedAt.secs >= Val(options.fromDate))
                /\ Has(options.toDate) =>
                       (publishedAt.num /\ publishedAt.secs <= Val(options.toDate))

\* C24: the value a purge call returns is the number of entries the call
\* removed from the table, also when one of its deletions fails after
\* others succeeded.
C24_ReturnsDeletedCount ==
    [][sched'.purge.n # sched.purge.n =>
          /\ sched'.purge.returned = Cardinality(store \ store')
          /\ sched'.purge.returned = Cardinality(sched'.purge.deleted)]_vars

\* C25: a text search whose first store query returns no entry returns the
\* empty list, makes no second query and leaves the cache as it was.
C25_EmptyBatchEnds ==
    [][(/\ lastSearch'.n # lastSearch.n
        /\ ~lastSearch'.fromCache
        /\ ~lastSearch'.failed
        /\ ~ListAllPath(lastSearch'.opts)
        /\ lastSearch'.first[1].size = 0)
       => /\ lastSearch'.result = <<>>
          /\ Len(lastSearch'.calls) = 1
          /\ newsCache' = newsCache]_vars

\* C25, the case reached: a text search over a table that holds entries got
\* an empty batch, after an earlier search had filled the cache
C25_EmptyBatch ==
    /\ lastSearch.n = 2
    /\ ~lastSearch.fromCache /\ ~lastSearch.failed
    /\ lastSearch.first # <<>>
    /\ lastSearch.first[1].size = 0
    /\ store # {}
    /\ newsCache # <<>>

\* checkForDuplicate of slot s returns true at this step
ReportsDuplicate(s) ==
    /\ tasks[s].pc \in {"checkUrl", "checkTitle"}
    /\ tasks'[s] # tasks[s]
    /\ tasks'[s].pc # "store"
    /\ tasks'[s].check.ret = "true"

\* C26: at every step an entry that is in the table before and after keeps
\* all its fields (entries are only added or removed); a step at which the
\* duplicate check reports a duplicate writes nothing and adds nothing to
\* the entries the call returns.
C26_NeverMutates ==
    [][/\ \A e \in store : \A f \in store' : e.id = f.id => e = f
       /\ \A s \in Slots :
              ReportsDuplicate(s) =>
                  /\ store' = store
                  /\ tasks'[s].items = tasks[s].items]_vars

\* C26, the case reached: an article with a stored url and a new title was
\* reported duplicate; the stored entry has its first title, and the call
\* returns nothing for it
C26_DuplicateSkipped ==
    \E s \in Slots :
        /\ tasks[s].check.url = "hit"
        /\ tasks[s].check.of = "Alpha update"
        /\ tasks[s].pc = "done"
        /\ tasks[s].items = <<>>
        /\ \E e \in store : e.url = "https://s1.example/a" /\ e.title = "Alpha"
        /\ ~(\E e \in store : e.title = "Alpha update")

\* C27: in a call one of whose writes fails, a storeNewsItem step never
\* fails the call and always moves it on to its next result; either
\* nothing is written and nothing is returned for the candidate (the write
\* failed), or the entry returned for it is one this step has added to the
\* table.
C27_StoreFailureSkipsItem ==
    [][\A s \in Slots :
          (/\ tasks[s].pc = "store"
           /\ tasks'[s] # tasks[s]
           /\ tasks'[s].putFailed) =>
              /\ tasks'[s].pc \in {"checkUrl", "checkTitle", "done"}
              /\ \/ (store' = store /\ tasks'[s].items = tasks[s].items)
                 \/ \E x \in store' \ store :
                        /\ store' = store \cup {x}
                        /\ tasks'[s].items = Append(tasks[s].items, x)]_vars

\* the part of C27 about the failed write alone: nothing written, nothing
\* returned, the call goes on to its next result
StoreFailureAlone ==
    [][\A s \in Slots :
          (tasks[s].pc = "store" /\ tasks'[s].putFailed /\ ~tasks[s].putFailed) =>
              /\ store' = store
              /\ tasks'[s].items = tasks[s].items
              /\ tasks'[s].pc \in {"checkUrl", "checkTitle", "done"}]_vars

\* the fields of two options objects have the same values
SameFieldValues(a, b) ==
    /\ a.query = b.query
    /\ a.conversationContext = b.conversationContext
    /\ a.limit = b.limit
    /\ a.fromDate = b.fromDate
    /\ a.toDate = b.toDate
    /\ a.sources = b.sources
    /\ a.topics = b.topics

\* b lists the elements of a in another order
Reordered(a, b) == a # b /\ Len(a) = Len(b) /\ Range(a) = Range(b)

\* C28: a search whose options have the field values of the search that
\* stored a cache entry is answered from that entry, however the fields of
\* either object were inserted; a search is answered from an entry only if
\* its sources and its topics list the same elements in the same order as
\* those of the search that stored the entry.
C28_KeyNormalisation ==
    [][lastSearch'.n # lastSearch.n =>
          /\ (\E k \in DOMAIN newsCache : SameFieldValues(newsCache[k].by, lastSearch'.opts))
                => lastSearch'.fromCache
          /\ lastSearch'.fromCache =>
                /\ lastSearch'.found[1].by.sources = lastSearch'.opts.sources
                /\ lastSearch'.found[1].by.topics = lastSearch'.opts.topics]_vars

\* C28, the case reached: a search answered from the entry of a search
\* whose object had its fields inserted in another order
C28_OtherInsertionOrder ==
    /\ lastSearch.fromCache
    /\ lastSearch.found[1].by.inserted # lastSearch.opts.inserted
    /\ SameFieldValues(lastSearch.found[1].by, lastSearch.opts)
    /\ lastSearch.result # <<>>

\* a search that differs from the one cached only in the order of its
\* sources was not answered from the cache
C28_ReorderedSourcesMiss ==
    /\ lastSearch.n = 2
    /\ ~lastSearch.fromCache
    /\ \E k \in DOMAIN newsCache :
           /\ Reordered(Val(newsCache[k].by.sources), Val(lastSearch.opts.sources))
           /\ newsCache[k].by.topics = lastSearch.opts.topics
           /\ newsCache[k].by.limit = lastSearch.opts.limit

\* C29: when a search has stored its result in the cache (and so swept
\* it), the cache holds no entry that getCachedNews treats as absent, that
\* is none that is 5 minutes old or older.
C29_SweepLeavesNoExpired ==
    [][(/\ lastSearch'.n # lastSearch.n
        /\ generateCacheKey(lastSearch'.opts) \in DOMAIN newsCache'
        /\ newsCache'[generateCacheKey(lastSearch'.opts)].timestamp = clock
        /\ ~lastSearch'.fromCache)
       => \A k \in DOMAIN newsCache' : ~(clock - newsCache'[k].timestamp >= 5 * 60)]_vars

\* the first match of pattern p in a text, whether pattern p yields a date
\* from the text, and the date it yields
FirstMatch(text, p) ==
    text.dates[CHOOSE i \in DOMAIN text.dates :
                  /\ text.dates[i].pat = p
                  /\ \A j \in DOMAIN text.dates : text.dates[j].pat = p => i <= j]
Matches(text, p) == \E i \in DOMAIN text.dates : text.dates[i].pat = p
Yields(text, p) == Matches(text, p) /\ (p >= 5 \/ FirstMatch(text, p).parsed.num)
DateFrom(text, p, now) ==
    CASE p = 5 -> DateOf(Num(now - FirstMatch(text, p).n * HOUR))
      [] p = 6 -> DateOf(Num(now - FirstMatch(text, p).n * DAY))
      [] p = 7 -> DateOf(Num(now - DAY))
      [] p = 8 -> DateOf(Num(now))
      [] OTHER -> DateOf(FirstMatch(text, p).parsed)
FirstYield(text, now) ==
    IF \E p \in 1..NumPatterns : Yields(text, p)
    THEN DateFrom(text, CHOOSE p \in 1..NumPatterns :
                            /\ Yields(text, p)
                            /\ \A q \in 1..NumPatterns : Yields(text, q) => p <= q, now)
    ELSE NullDate

\* the candidates in flight that got their date from their texts
Extracting ==
    {s \in Slots : /\ tasks[s].pc \in {"checkUrl", "checkTitle", "store"}
                   /\ tasks[s].pending # <<>>
                   /\ ~Has(Head(tasks[s].pending).publishedDate)
                   /\ Has(Head(tasks[s].pending).rawContent)}

\* C30: the date extracted from a text is the date of the earliest pattern,
\* in the fixed order, whose first match in the text gives a valid date: a
\* relative pattern always does, an absolute one only when its matched text
\* parses, and otherwise the next pattern is tried; no date is extracted
\* only when no pattern yields one (the content is then tried, then the
\* present time is taken).
C30_FirstMatchWins ==
    \A s \in Extracting :
        LET result == Head(tasks[s].pending)
            rawContent == Val(result.rawContent)
            fromRaw == FirstYield(rawContent, clock)
            fromContent == FirstYield(result.content, clock)
        IN  /\ extractDateFromContent(rawContent, clock) = fromRaw
            /\ fromRaw.kind # "null" => fromRaw.t.num
            /\ (fromRaw.kind = "null") = (\A p \in 1..NumPatterns : ~Yields(rawContent, p))
            /\ tasks[s].cand.publishedAt =
                  IF fromRaw.kind # "null" THEN fromRaw
                  ELSE IF fromContent.kind # "null" THEN fromContent
                  ELSE DateOf(Num(clock))

\* C30, the case reached: a text in which "today" comes first, the matches
\* of two absolute patterns do not parse, and the ISO date is taken
C30_FallsThroughToLaterPattern ==
    \E s \in Extracting :
        LET rawContent == Val(Head(tasks[s].pending).rawContent)
        IN  /\ Len(rawContent.dates) = 4
            /\ rawContent.dates[1].pat = 8
            /\ Matches(rawContent, 1) /\ ~Yields(rawContent, 1)
            /\ tasks[s].cand.publishedAt = DateOf(Num(Now0 - 34 * DAY))

\* C30, a text in which no pattern yields a date although one matches
C30_NoneWhenNothingYields ==
    \E s \in Extracting :
        LET result == Head(tasks[s].pending)
        IN  /\ Matches(Val(result.rawContent), 4)
            /\ extractDateFromContent(Val(result.rawContent), clock).kind = "null"
            /\ result.content.dates = <<>>
            /\ tasks[s].cand.publishedAt = DateOf(Num(clock))
            /\ ticks > 0

\* C31: no list returned by a search holds the same stored entry twice:
\* the ids of its entries are pairwise distinct.
C31_NoEntryTwice ==
    lastSearch.n > 0 =>
        \A i \in DOMAIN lastSearch.result : \A j \in DOMAIN lastSearch.result :
            lastSearch.result[i].id = lastSearch.result[j].id => i = j

\* C32: an article with a url that concurrent per-topic fetches of one
\* fetchNews call have each received is in the table once and is once in
\* the combined allItems list of the call.
C32_SameUrlOnceInAllItems ==
    /\ \A e1, e2 \in store : (e1.url # "" /\ e1.url = e2.url) => e1 = e2
    /\ \A i \in DOMAIN round.allItems : \A j \in DOMAIN round.allItems :
           (round.allItems[i].url # "" /\ round.allItems[i].url = round.allItems[j].url)
               => i = j

\* C34: whatever the initialize() calls made, overlapping ones included, at
\* most one fetch timer per topic and at most one daily purge timer are
\* active.
C34_TimersUnique ==
    /\ Cardinality({tm \in sched.timers : tm.kind = "purge"}) <= 1
    /\ \A tm1, tm2 \in sched.timers :
           (tm1.kind = "fetch" /\ tm2.kind = "fetch" /\ tm1.topic = tm2.topic) => tm1 = tm2

\* C35: every active fetch timer is recorded in the fetchIntervals map, so
\* that stop() cancels it.
C35_FetchTimersRecorded ==
    \A tm \in sched.timers :
        tm.kind = "fetch" =>
            \E name \in DOMAIN sched.fetchIntervals : sched.fetchIntervals[name] = tm.id

\* C36: a search whose store query fails returns the empty list and leaves
\* the cache as it was, and the next search with the same options is not
\* served from the cache: it queries the store.
C36_FailedSearchLeavesCache ==
    [][/\ (lastSearch'.n # lastSearch.n /\ lastSearch'.failed)
           => /\ lastSearch'.result = <<>>
              /\ newsCache' = newsCache
       /\ (/\ lastSearch'.n # lastSearch.n
           /\ lastSearch.failed
           /\ lastSearch'.opts = lastSearch.opts)
           => /\ ~lastSearch'.fromCache
              /\ lastSearch'.calls # <<>>]_vars

\* C36, the case reached: a search failed whose key had an expired entry in
\* the cache, and the entry is still there
C36_FailedOverExpiredEntry ==
    /\ lastSearch.failed
    /\ lastSearch.found # <<>>
    /\ generateCacheKey(lastSearch.opts) \in DOMAIN newsCache
    /\ newsCache[generateCacheKey(lastSearch.opts)].results # <<>>

\* C33: when a search returns, every entry of its result is in the table,
\* and every entry of the table that satisfies its filters is in the result
\* when the table holds no more entries than the limit: an entry a purge
\* has deleted is not returned, an entry a fetch has persisted is.
C33_ResultIsOfTheTable ==
    [][(lastSearch'.n # lastSearch.n /\ ~lastSearch'.failed) =>
          /\ \A i \in DOMAIN lastSearch'.result : lastSearch'.result[i] \in store
          /\ Cardinality(store) <= claimedLimit(lastSearch'.opts) =>
                 \A e \in store :
                     Passes(e, lastSearch'.opts) =>
                         \E i \in DOMAIN lastSearch'.result : lastSearch'.result[i] = e]_vars

\* an initialize() call begins at this step
Begins(i) == sched.inits[i] = "idle" /\ sched'.inits[i] # "idle"

\* C37: when the initialization of the search provider fails in
\* initialize(), the call fails, no timer is installed, no fetch has run and
\* the engine is not ready; an initialize() call made later is not
\* answered as a no-op, it initializes the provider again.
C37_ProviderFailureLeavesNotReady ==
    [][\A i \in Inits :
          sched'.inits[i] = "failed" =>
              /\ sched'.timers = {}
              /\ sched'.fetchIntervals = <<>>
              /\ ~sched'.initialized
              /\ round'.n = 0
              /\ \A s \in Slots : tasks'[s].pc = "idle"
              /\ \A j \in Inits : Begins(j) => sched'.inits[j] \in {"webSearch", "failed"}
              /\ Begins(i) => (~sched.settings.apiKey /\ store' = store)]_vars

\* C37, the case reached: initialize() failed without an API key, and so
\* did a second call
C37_FailedTwice ==
    /\ ~sched.settings.apiKey
    /\ sched.inits[1] = "failed"
    /\ sched.inits[2] = "failed"

\* C38: once initialize() has completed, an initialize() call changes
\* nothing, also after stop(): no timer, no fetch, the engine as it was (in
\* the model the call is recorded as returned).
C38_InitializeOnceOnly ==
    [][\A i \in Inits :
          (Begins(i) /\ sched.initialized) =>
              /\ sched' = [sched EXCEPT !.inits[i] = "returned"]
              /\ round' = round
              /\ tasks' = tasks
              /\ store' = store
              /\ newsCache' = newsCache]_vars

\* C38, the case reached: a stopped engine on which initialize() has
\* returned at once; its fetch timers are still cancelled
C38_StoppedNotRestarted ==
    /\ sched.initialized
    /\ sched.stopped
    /\ sched.inits[1] = "done"
    /\ sched.inits[2] = "returned"
    /\ sched.fetchIntervals = <<>>
    /\ \A tm \in sched.timers : tm.kind # "fetch"

====
